---------------------------- MODULE Spec2Model ----------------------------
(***************************************************************************)
(* A model of the production-data cleaning pipeline DataCleaner.clean      *)
(* (src/src/data_cleaning/cleaner.py) and of its configuration             *)
(* (src/src/data_cleaning/config.py).                                      *)
(*                                                                         *)
(* A table is a pandas DataFrame: a sequence of column headers and a       *)
(* sequence of rows, every row carrying its index label and one cell per   *)
(* column.  A cell is a tagged value: text (a sequence of characters), a   *)
(* number (a rational n/d in lowest terms standing for the float), a date  *)
(* (yyyymmdd) or the missing marker (NaN, NaT, None and <NA> alike).       *)
(* A call of clean is a process whose position pc moves through the        *)
(* stages of the function body; two calls exist so that two invocations    *)
(* can be compared and interleaved.                                        *)
(***************************************************************************)
EXTENDS Integers, Sequences, FiniteSets, TLC

(***************************************************************************)
(* Bounds of the model.                                                    *)
(***************************************************************************)
\* most rows of an input table whose cells vary
MaxRows == 2
\* most rows of an input table whose headers vary
MaxHeaderRows == 1
\* most rows of the table two calls are given alike
MaxTwinRows == 1

(***************************************************************************)
(* Cells.                                                                  *)
(***************************************************************************)
Null == [k |-> "null", s |-> <<>>, n |-> 0, d |-> 1]

Str(chars) == [k |-> "str", s |-> chars, n |-> 0, d |-> 1]

RECURSIVE GCD(_, _)
GCD(a, b) == IF b = 0 THEN a ELSE GCD(b, a % b)

\* the float n/d, kept in lowest terms so that equal numbers are equal cells
Num(n, d) ==
    LET g == GCD(IF n < 0 THEN -n ELSE n, d)
    IN  [k |-> "num", s |-> <<>>, n |-> n \div g, d |-> d \div g]

Date(yyyymmdd) == [k |-> "date", s |-> <<>>, n |-> yyyymmdd, d |-> 1]

isna(cell) == cell.k = "null"

\* a / b for two float cells, b # 0; NaN if either is NaN
Div(a, b) ==
    IF isna(a) \/ isna(b) THEN Null
    ELSE IF b.n > 0 THEN Num(a.n * b.d, a.d * b.n)
    ELSE Num(-(a.n * b.d), a.d * (-b.n))

\* a * b for two float cells; NaN if either is NaN
Mul(a, b) == IF isna(a) \/ isna(b) THEN Null ELSE Num(a.n * b.n, a.d * b.d)

\* a <= b for two float cells; a comparison with NaN is false
Leq(a, b) == ~isna(a) /\ ~isna(b) /\ a.n * b.d <= b.n * a.d

(***************************************************************************)
(* Parsing of text, digit by digit.                                        *)
(***************************************************************************)
Digits == <<"0", "1", "2", "3", "4", "5", "6", "7", "8", "9">>

IsDigit(ch) == \E i \in 1..10 : Digits[i] = ch

DigitVal(ch) == (CHOOSE i \in 1..10 : Digits[i] = ch) - 1

AllDigits(chars) == Len(chars) > 0 /\ \A i \in 1..Len(chars) : IsDigit(chars[i])

RECURSIVE DigitsValue(_)
DigitsValue(chars) ==
    IF chars = <<>> THEN 0
    ELSE 10 * DigitsValue(SubSeq(chars, 1, Len(chars) - 1))
         + DigitVal(chars[Len(chars)])

\* the positions of character ch in chars
PositionsOf(ch, chars) == {i \in 1..Len(chars) : chars[i] = ch}

\* a conversion that knows text only: a number is not taken as one
to_numeric_of_text(cell) ==
    CASE cell.k = "num" -> Null
      [] cell.k = "null" -> Null
      [] cell.k = "str" ->
            IF AllDigits(cell.s) THEN Num(DigitsValue(cell.s), 1) ELSE Null

\* pd.to_numeric(..., errors="coerce") of one cell
to_numeric(cell) ==
    CASE cell.k = "num" -> cell
      [] cell.k = "null" -> Null
      [] cell.k = "str" ->
            IF AllDigits(cell.s) THEN Num(DigitsValue(cell.s), 1) ELSE Null

DaysInMonth(y, m) ==
    IF m = 2
    THEN (IF y % 4 = 0 /\ (y % 100 # 0 \/ y % 400 = 0) THEN 29 ELSE 28)
    ELSE (IF m \in {4, 6, 9, 11} THEN 30 ELSE 31)

\* pd.to_datetime(..., errors="coerce") of one cell: ISO text YYYY-MM-DD
to_datetime(cell) ==
    CASE cell.k = "date" -> cell
      [] cell.k = "null" -> Null
      [] cell.k = "str" ->
            LET c == cell.s
                wellFormed ==
                    /\ Len(c) = 10
                    /\ PositionsOf("-", c) = {5, 8}
                    /\ AllDigits(SubSeq(c, 1, 4))
                    /\ AllDigits(SubSeq(c, 6, 7))
                    /\ AllDigits(SubSeq(c, 9, 10))
                y == DigitsValue(SubSeq(c, 1, 4))
                m == DigitsValue(SubSeq(c, 6, 7))
                dd == DigitsValue(SubSeq(c, 9, 10))
            IN  IF wellFormed /\ m \in 1..12 /\ dd \in 1..DaysInMonth(y, m)
                THEN Date(y * 10000 + m * 100 + dd)
                ELSE Null

\* Series.astype("string") of one cell: text stays, missing stays missing
astype_string(cell) ==
    CASE cell.k = "str" -> cell
      [] cell.k = "null" -> Null

\* the seconds field of the text left out of the sum
total_seconds_without_ss(cell) ==
    CASE cell.k = "null" -> Null
      [] cell.k = "str" ->
            LET c == cell.s
                n == Len(c)
                wellFormed ==
                    /\ n >= 7
                    /\ PositionsOf(":", c) = {n - 5, n - 2}
                    /\ AllDigits(SubSeq(c, 1, n - 6))
                    /\ AllDigits(SubSeq(c, n - 4, n - 3))
                    /\ AllDigits(SubSeq(c, n - 1, n))
                hh == DigitsValue(SubSeq(c, 1, n - 6))
                mm == DigitsValue(SubSeq(c, n - 4, n - 3))
            IN  IF wellFormed THEN Num(hh * 3600 + mm * 60, 1) ELSE Null

\* pd.to_timedelta(..., errors="coerce").dt.total_seconds() of one string
\* cell: elapsed-time text H..H:MM:SS
total_seconds(cell) ==
    CASE cell.k = "null" -> Null
      [] cell.k = "str" ->
            LET c == cell.s
                n == Len(c)
                wellFormed ==
                    /\ n >= 7
                    /\ PositionsOf(":", c) = {n - 5, n - 2}
                    /\ AllDigits(SubSeq(c, 1, n - 6))
                    /\ AllDigits(SubSeq(c, n - 4, n - 3))
                    /\ AllDigits(SubSeq(c, n - 1, n))
                hh == DigitsValue(SubSeq(c, 1, n - 6))
                mm == DigitsValue(SubSeq(c, n - 4, n - 3))
                ss == DigitsValue(SubSeq(c, n - 1, n))
            IN  IF wellFormed /\ mm < 60 /\ ss < 60
                THEN Num(hh * 3600 + mm * 60 + ss, 1)
                ELSE Null

(***************************************************************************)
(* The configuration (config.py).                                          *)
(***************************************************************************)
\* the two headers the equipment export writes with an embedded newline
BuiltinRenameMap ==
    ("Shift\nperiod" :> "Shift_period") @@ ("Run\ntime" :> "Run_time")

\* the dataclass fields with their defaults
ConfigDefaults ==
    [rpm_max |-> Num(10000, 1),
     efficiency_min |-> Num(75, 1),
     efficiency_max |-> Num(100, 1),
     spindles_per_side |-> 84,
     shift_hours |-> Num(8, 1),
     drop_multi_style_shifts |-> TRUE,
     col_date |-> "Date",
     col_shift |-> "Shift_period",
     col_machine |-> "Machine-number",
     col_style |-> "Style-description",
     col_runtime |-> "Run_time",
     col_rpm |-> "RPM",
     rename_map |-> <<>>]

\* __post_init__ left out: the rename map stays as the constructor was given
post_init_skipped(self) == self

\* the built-in entries set only when the caller passed no map
post_init_when_none(self) ==
    IF self.rename_map = <<>>
    THEN [self EXCEPT !.rename_map = BuiltinRenameMap]
    ELSE self

\* __post_init__: the rename map is set to the built-in entries, whatever
\* the constructor was given
post_init(self) == [self EXCEPT !.rename_map = BuiltinRenameMap]

\* DataCleaningConfig(**kwargs): the keyword arguments override the defaults
DataCleaningConfig(kwargs) ==
    post_init([f \in DOMAIN ConfigDefaults |->
                 IF f \in DOMAIN kwargs THEN kwargs[f] ELSE ConfigDefaults[f]])

\* no configuration constructed yet
NoConfig == [rename_map |-> <<>>]

(***************************************************************************)
(* Tables (pandas DataFrames).                                             *)
(***************************************************************************)
NoTable == [columns |-> <<>>, rows |-> <<>>]

\* the positions of the columns labelled name
ColPositions(t, name) == {p \in 1..Len(t.columns) : t.columns[p] = name}

\* df[name].ndim: 1 for a Series, 2 when several columns carry the label
ndim(t, name) == IF Cardinality(ColPositions(t, name)) > 1 THEN 2 ELSE 1

\* the cell of a row in the (single) column labelled name
Cell(t, row, name) == row.cells[CHOOSE p \in ColPositions(t, name) : TRUE]

\* df.rename(columns=m): a new table, headers that are keys of m replaced
rename(t, m) ==
    [t EXCEPT !.columns =
        [p \in 1..Len(t.columns) |->
            IF t.columns[p] \in DOMAIN m THEN m[t.columns[p]] ELSE t.columns[p]]]

\* df[name] for a label one column carries: the Series of its cells
Series(t, name) == [i \in 1..Len(t.rows) |-> Cell(t, t.rows[i], name)]

\* df[name] = values: replaces the column labelled name, or appends it
setitem(t, name, values) ==
    IF ColPositions(t, name) = {}
    THEN [columns |-> Append(t.columns, name),
          rows |-> [i \in 1..Len(t.rows) |->
                      [t.rows[i] EXCEPT !.cells = Append(@, values[i])]]]
    ELSE LET p == CHOOSE q \in ColPositions(t, name) : TRUE
         IN  [t EXCEPT !.rows =
                [i \in 1..Len(t.rows) |->
                    [t.rows[i] EXCEPT !.cells[p] = values[i]]]]

\* the selected rows gathered last to first
RECURSIVE SelectRowsReversed(_, _)
SelectRowsReversed(rows, mask) ==
    IF rows = <<>> THEN <<>>
    ELSE LET rest == SelectRowsReversed(Tail(rows), Tail(mask))
         IN  IF Head(mask) THEN rest \o <<Head(rows)>> ELSE rest

\* df.loc[mask] for a boolean mask: the rows whose mask entry is true, in
\* their order, labels kept
RECURSIVE SelectRows(_, _)
SelectRows(rows, mask) ==
    IF rows = <<>> THEN <<>>
    ELSE LET rest == SelectRows(Tail(rows), Tail(mask))
         IN  IF Head(mask) THEN <<Head(rows)>> \o rest ELSE rest

loc(t, mask) == [t EXCEPT !.rows = SelectRows(t.rows, mask)]

\* df.dropna(subset=...): the rows with no missing cell in the subset
dropna(t, subset) ==
    loc(t, [i \in 1..Len(t.rows) |->
               \A name \in subset : ~isna(Cell(t, t.rows[i], name))])

(***************************************************************************)
(* The stages of DataCleaner.clean (cleaner.py), as functions of the       *)
(* working table and the configuration.                                    *)
(***************************************************************************)
\* Python orders strings by code point; the headers of the model in that
\* order ("\n" precedes "_")
CodePointOrder ==
    <<"Date", "Machine-number", "Operator", "RPM", "Run\ntime", "Run_time",
      "Shift\nperiod", "Shift_period", "Speed", "Style-description">>

Rank(name) == CHOOSE i \in 1..Len(CodePointOrder) : CodePointOrder[i] = name

\* sorted(S) for a set of strings
RECURSIVE sorted(_)
sorted(S) ==
    IF S = {} THEN <<>>
    ELSE LET least == CHOOSE x \in S : \A y \in S : Rank(x) <= Rank(y)
         IN  <<least>> \o sorted(S \ {least})

\* every order in which the elements of a set can be listed
RECURSIVE Orderings(_)
Orderings(S) ==
    IF S = {} THEN {<<>>}
    ELSE UNION {{<<x>> \o rest : rest \in Orderings(S \ {x})} : x \in S}

\* the headers renamed in the caller's table itself, no copy taken
RenameInPlace(raw, cfg) ==
    [df_raw |-> rename(raw, cfg.rename_map),
     df |-> rename(raw, cfg.rename_map),
     shared |-> TRUE]

\* lines 18-21: df = df_raw.copy(); df = df.rename(columns=rename_map or {}).
\* The result names the caller's table, the working table, and whether the
\* two are one object.
CopyAndRename(raw, cfg) ==
    [df_raw |-> raw, df |-> rename(raw, cfg.rename_map), shared |-> FALSE]

\* lines 24-31
required(cfg) ==
    {cfg.col_date, cfg.col_shift, cfg.col_machine, cfg.col_style,
     cfg.col_runtime, cfg.col_rpm}

\* line 32
missing(t, cfg) == required(cfg) \ {t.columns[p] : p \in 1..Len(t.columns)}

\* the missing names listed in the order the set happens to yield them
UnsortedReport(m) == Orderings(m)

\* line 34: the lists the KeyError can carry; a set has no order of its own,
\* sorted() fixes one
MissingReport(m) == {sorted(m)}

\* the seconds assigned into the run-time column as well
CoerceRunTimeOverwritten(t, cfg) ==
    LET t1 == setitem(t, cfg.col_date,
                      [i \in 1..Len(t.rows) |->
                          to_datetime(Series(t, cfg.col_date)[i])])
        t2 == setitem(t1, cfg.col_rpm,
                      [i \in 1..Len(t.rows) |->
                          to_numeric(Series(t1, cfg.col_rpm)[i])])
        t3 == setitem(t2, "Run_time_seconds",
                      [i \in 1..Len(t.rows) |->
                          total_seconds(
                              astype_string(Series(t2, cfg.col_runtime)[i]))])
        t4 == setitem(t3, cfg.col_runtime, Series(t3, "Run_time_seconds"))
    IN  IF ndim(t, cfg.col_date) = 2 THEN [df |-> t, raised |-> "ValueError"]
        ELSE IF ndim(t1, cfg.col_rpm) = 2
             THEN [df |-> t1, raised |-> "TypeError"]
        ELSE IF ndim(t2, cfg.col_runtime) = 2
             THEN [df |-> t2, raised |-> "TypeError"]
        ELSE [df |-> t4, raised |-> "none"]

\* lines 37-41: the three coercions, each assigned into the working table.
\* A label carried by several columns selects a 2-D frame, which the pandas
\* converters refuse: the stage then raises with the earlier assignments done.
Coerce(t, cfg) ==
    LET t1 == setitem(t, cfg.col_date,
                      [i \in 1..Len(t.rows) |->
                          to_datetime(Series(t, cfg.col_date)[i])])
        t2 == setitem(t1, cfg.col_rpm,
                      [i \in 1..Len(t.rows) |->
                          to_numeric(Series(t1, cfg.col_rpm)[i])])
        t3 == setitem(t2, "Run_time_seconds",
                      [i \in 1..Len(t.rows) |->
                          total_seconds(
                              astype_string(Series(t2, cfg.col_runtime)[i]))])
    IN  IF ndim(t, cfg.col_date) = 2 THEN [df |-> t, raised |-> "ValueError"]
        ELSE IF ndim(t1, cfg.col_rpm) = 2
             THEN [df |-> t1, raised |-> "TypeError"]
        ELSE IF ndim(t2, cfg.col_runtime) = 2
             THEN [df |-> t2, raised |-> "TypeError"]
        ELSE [df |-> t3, raised |-> "none"]

\* the run time left out of the subset
DropUnusableDateRpm(t, cfg) == dropna(t, {cfg.col_date, cfg.col_rpm})

\* line 44
DropUnusable(t, cfg) ==
    dropna(t, {cfg.col_date, cfg.col_rpm, "Run_time_seconds"})

\* the boundary excluded
FilterRpmStrict(t, cfg) ==
    loc(t, [i \in 1..Len(t.rows) |->
               /\ Leq(Series(t, cfg.col_rpm)[i], cfg.rpm_max)
               /\ Series(t, cfg.col_rpm)[i] # cfg.rpm_max])

\* line 47
FilterRpm(t, cfg) ==
    loc(t, [i \in 1..Len(t.rows) |-> Leq(Series(t, cfg.col_rpm)[i], cfg.rpm_max)])

\* line 51
GroupKey(t, row, cfg) ==
    <<Cell(t, row, cfg.col_date), Cell(t, row, cfg.col_shift),
      Cell(t, row, cfg.col_machine)>>

\* a missing style counted as a style of its own
style_counts_with_missing(t, key, cfg) ==
    Cardinality({Cell(t, t.rows[i], cfg.col_style) :
                    i \in {j \in 1..Len(t.rows) :
                              GroupKey(t, t.rows[j], cfg) = key}})

\* line 52: groupby(keys, dropna=False)[style].nunique(); nunique leaves
\* missing values out of the count
style_counts(t, key, cfg) ==
    Cardinality({Cell(t, t.rows[i], cfg.col_style) :
                    i \in {j \in 1..Len(t.rows) :
                              GroupKey(t, t.rows[j], cfg) = key}} \ {Null})

\* groupby left at dropna=True: a key with a missing part forms no group
bad_keys_dropna(t, cfg) ==
    {key \in {GroupKey(t, t.rows[i], cfg) : i \in 1..Len(t.rows)} :
        /\ style_counts(t, key, cfg) > 1
        /\ \A p \in 1..3 : ~isna(key[p])}

\* line 53
bad_keys(t, cfg) ==
    {key \in {GroupKey(t, t.rows[i], cfg) : i \in 1..Len(t.rows)} :
        style_counts(t, key, cfg) > 1}

\* the first row of a mixed group kept, only the later ones removed
DropMultiStyleExtras(t, cfg) ==
    IF ~cfg.drop_multi_style_shifts THEN [df |-> t, raised |-> "none"]
    ELSE [df |-> loc(t, [i \in 1..Len(t.rows) |->
                            \/ GroupKey(t, t.rows[i], cfg) \notin bad_keys(t, cfg)
                            \/ \A j \in 1..(i - 1) :
                                  GroupKey(t, t.rows[j], cfg)
                                      # GroupKey(t, t.rows[i], cfg)]),
          raised |-> "none"]

\* the flag not consulted
DropMultiStyleAlways(t, cfg) ==
    [df |-> loc(t, [i \in 1..Len(t.rows) |->
                       GroupKey(t, t.rows[i], cfg) \notin bad_keys(t, cfg)]),
     raised |-> "none"]

\* the groups formed from the rows within the efficiency range only
DropMultiStyleAfterEfficiency(t, cfg) ==
    IF ~cfg.drop_multi_style_shifts THEN [df |-> t, raised |-> "none"]
    ELSE LET e(i) == Div(Mul(Cell(t, t.rows[i], "Run_time_seconds"), Num(100, 1)),
                         Mul(Mul(cfg.shift_hours, Num(3600, 1)),
                             Num(cfg.spindles_per_side, 1)))
             within == loc(t, [i \in 1..Len(t.rows) |->
                                 /\ Leq(cfg.efficiency_min, e(i))
                                 /\ Leq(e(i), cfg.efficiency_max)])
         IN  [df |-> loc(t, [i \in 1..Len(t.rows) |->
                               GroupKey(t, t.rows[i], cfg) \notin bad_keys(within, cfg)]),
              raised |-> "none"]

\* lines 50-54; groupby refuses a key label carried by several columns
DropMultiStyle(t, cfg) ==
    IF ~cfg.drop_multi_style_shifts THEN [df |-> t, raised |-> "none"]
    ELSE IF \E name \in {cfg.col_date, cfg.col_shift, cfg.col_machine} :
                ndim(t, name) = 2
         THEN [df |-> t, raised |-> "ValueError"]
         ELSE [df |-> loc(t, [i \in 1..Len(t.rows) |->
                                GroupKey(t, t.rows[i], cfg) \notin bad_keys(t, cfg)]),
               raised |-> "none"]

\* line 57
total_shift_seconds(cfg) == Mul(cfg.shift_hours, Num(3600, 1))

\* line 58
spindles(cfg) == Num(cfg.spindles_per_side, 1)

\* the efficiency taken against the shift length alone, the spindle count
\* left out of the denominator
DeriveMetricsShiftOnly(t, cfg) ==
    LET t1 == setitem(t, "Run_time_per_spindle_seconds",
                      [i \in 1..Len(t.rows) |->
                          Div(Series(t, "Run_time_seconds")[i], spindles(cfg))])
        t2 == setitem(t1, "Run_time_per_spindle_hours",
                      [i \in 1..Len(t.rows) |->
                          Div(Series(t1, "Run_time_per_spindle_seconds")[i],
                              Num(3600, 1))])
    IN  setitem(t2, "Machine_Efficiency",
                [i \in 1..Len(t.rows) |->
                    Mul(Div(Series(t2, "Run_time_seconds")[i],
                            total_shift_seconds(cfg)),
                        Num(100, 1))])

\* the three derived columns added only when the table has rows
DeriveMetricsUnlessEmpty(t, cfg) ==
    IF t.rows = <<>> THEN t
    ELSE LET t1 == setitem(t, "Run_time_per_spindle_seconds",
                      [i \in 1..Len(t.rows) |->
                          Div(Series(t, "Run_time_seconds")[i], spindles(cfg))])
             t2 == setitem(t1, "Run_time_per_spindle_hours",
                      [i \in 1..Len(t.rows) |->
                          Div(Series(t1, "Run_time_per_spindle_seconds")[i],
                              Num(3600, 1))])
         IN  setitem(t2, "Machine_Efficiency",
                [i \in 1..Len(t.rows) |->
                    Mul(Div(Series(t2, "Run_time_seconds")[i],
                            Mul(total_shift_seconds(cfg), spindles(cfg))),
                        Num(100, 1))])

\* lines 60-64
DeriveMetrics(t, cfg) ==
    LET t1 == setitem(t, "Run_time_per_spindle_seconds",
                      [i \in 1..Len(t.rows) |->
                          Div(Series(t, "Run_time_seconds")[i], spindles(cfg))])
        t2 == setitem(t1, "Run_time_per_spindle_hours",
                      [i \in 1..Len(t.rows) |->
                          Div(Series(t1, "Run_time_per_spindle_seconds")[i],
                              Num(3600, 1))])
    IN  setitem(t2, "Machine_Efficiency",
                [i \in 1..Len(t.rows) |->
                    Mul(Div(Series(t2, "Run_time_seconds")[i],
                            Mul(total_shift_seconds(cfg), spindles(cfg))),
                        Num(100, 1))])

\* inclusive="neither"
betweenExclusive(x, left, right) ==
    Leq(left, x) /\ Leq(x, right) /\ x # left /\ x # right

\* Series.between(left, right), inclusive="both"
between(x, left, right) == Leq(left, x) /\ Leq(x, right)

\* lines 67-71
FilterEfficiency(t, cfg) ==
    loc(t, [i \in 1..Len(t.rows) |->
               between(Series(t, "Machine_Efficiency")[i],
                       cfg.efficiency_min, cfg.efficiency_max)])

\* lines 12-73: what a call of clean ends with, the table returned or the
\* exception raised
clean(raw, cfg) ==
    LET renamed == CopyAndRename(raw, cfg).df
        coerced == Coerce(renamed, cfg)
        filtered == FilterRpm(DropUnusable(coerced.df, cfg), cfg)
        grouped == DropMultiStyle(filtered, cfg)
    IN  IF missing(renamed, cfg) # {}
        THEN [df |-> NoTable, raised |-> "KeyError"]
        ELSE IF coerced.raised # "none"
             THEN [df |-> NoTable, raised |-> coerced.raised]
        ELSE IF grouped.raised # "none"
             THEN [df |-> NoTable, raised |-> grouped.raised]
        ELSE [df |-> FilterEfficiency(DeriveMetrics(grouped.df, cfg), cfg),
              raised |-> "none"]

(***************************************************************************)
(* The inputs: raw tables and configurations.                              *)
(* Text that a stage parses is spelled out character by character; text    *)
(* that no stage parses (shift, machine, style) is kept as one token.      *)
(***************************************************************************)
IsoDate == <<"2", "0", "2", "4", "-", "0", "1", "-", "0", "1">>

Garbage == <<"n", "/", "a">>

\* run times that give 100 %, 75 %, just under 75 % and just over 100 %
\* Machine_Efficiency under the default configuration
RunTimeTexts ==
    <<<<"6", "7", "2", ":", "0", "0", ":", "0", "0">>,
      <<"5", "0", "4", ":", "0", "0", ":", "0", "0">>,
      <<"5", "0", "3", ":", "5", "9", ":", "5", "9">>,
      <<"6", "7", "2", ":", "0", "0", ":", "0", "1">>>>

\* the values of each parsed column; the first is the value of a sound row
DateValues == <<Str(IsoDate), Str(Garbage), Null>>

RunTimeValues ==
    [i \in 1..4 |-> Str(RunTimeTexts[i])] \o <<Str(Garbage), Null>>

RpmValues ==
    <<Num(10000, 1), Num(10001, 1), Str(<<"9", "9", "9", "9">>), Str(Garbage),
      Null>>

ShiftValues == {Str(<<"Day">>), Str(<<"Night">>)}

StyleValues == {Str(<<"Style A">>), Str(<<"Style B">>)}

MachineValue == Str(<<"M1">>)

Range(seq) == {seq[i] : i \in 1..Len(seq)}

\* (date, run time, RPM) of a row: at most one of them departs from the
\* sound value
Qualities ==
    {<<d, RunTimeValues[1], RpmValues[1]>> : d \in Range(DateValues)}
    \cup {<<DateValues[1], t, RpmValues[1]>> : t \in Range(RunTimeValues)}
    \cup {<<DateValues[1], RunTimeValues[1], r>> : r \in Range(RpmValues)}

CanonicalColumns ==
    <<"Date", "Shift_period", "Machine-number", "Style-description",
      "Run_time", "RPM">>

\* the cells of a row under CanonicalColumns
RowCells ==
    {<<q[1], Str(<<"Day">>), MachineValue, st, q[2], q[3]>> :
        q \in Qualities, st \in StyleValues}
    \cup {<<DateValues[1], sh, MachineValue, st, RunTimeValues[1], RpmValues[1]>> :
            sh \in ShiftValues, st \in StyleValues}

\* a DataFrame built from a list of rows: the default RangeIndex 0..n-1
DataFrame(columns, cells) ==
    [columns |-> columns,
     rows |-> [i \in 1..Len(cells) |-> [idx |-> i - 1, cells |-> cells[i]]]]

\* tables with the canonical headers whose cells vary
CellTables(maxRows) ==
    {DataFrame(CanonicalColumns, cells) :
        cells \in UNION {[1..n -> RowCells] : n \in 0..maxRows}}

\* the headers a raw table may carry: the canonical ones, the two raw
\* export headers, and a column the pipeline does not know
HeaderPool ==
    <<"Date", "Shift\nperiod", "Shift_period", "Machine-number",
      "Style-description", "Run\ntime", "Run_time", "RPM", "Operator">>

SoundCell(header) ==
    CASE header = "Date" -> DateValues[1]
      [] header \in {"Shift\nperiod", "Shift_period"} -> Str(<<"Day">>)
      [] header = "Machine-number" -> MachineValue
      [] header = "Style-description" -> Str(<<"Style A">>)
      [] header \in {"Run\ntime", "Run_time"} -> RunTimeValues[1]
      [] header \in {"RPM", "Speed"} -> RpmValues[1]
      [] header = "Operator" -> Str(<<"Op 7">>)

RECURSIVE SubSeqOf(_, _)
SubSeqOf(seq, S) ==
    IF seq = <<>> THEN <<>>
    ELSE (IF Head(seq) \in S THEN <<Head(seq)>> ELSE <<>>)
         \o SubSeqOf(Tail(seq), S)

\* tables of sound rows whose headers vary
HeaderTables(maxRows) ==
    {LET columns == SubSeqOf(HeaderPool, S)
     IN  DataFrame(columns,
                   [i \in 1..n |-> [p \in 1..Len(columns) |-> SoundCell(columns[p])]]) :
        S \in SUBSET Range(HeaderPool), n \in 0..maxRows}

Configs ==
    {DataCleaningConfig([drop_multi_style_shifts |-> b]) : b \in BOOLEAN}

(***************************************************************************)
(* File input and output (io.py).  A path and a format indicator are texts *)
(* spelled out character by character; fmt is None or a text.              *)
(***************************************************************************)
None == [given |-> FALSE, text |-> <<>>]

Text(chars) == [given |-> TRUE, text |-> chars]

\* bool(x) of None or a string
truthy(x) == x.given /\ x.text # <<>>

UpperCase ==
    <<"A", "B", "C", "D", "E", "F", "G", "H", "I", "J", "K", "L", "M", "N",
      "O", "P", "Q", "R", "S", "T", "U", "V", "W", "X", "Y", "Z">>

LowerCase ==
    <<"a", "b", "c", "d", "e", "f", "g", "h", "i", "j", "k", "l", "m", "n",
      "o", "p", "q", "r", "s", "t", "u", "v", "w", "x", "y", "z">>

\* str.lower()
lower(chars) ==
    [i \in 1..Len(chars) |->
        IF \E j \in 1..26 : UpperCase[j] = chars[i]
        THEN LowerCase[CHOOSE j \in 1..26 : UpperCase[j] = chars[i]]
        ELSE chars[i]]

\* str.lstrip(ch)
RECURSIVE lstrip(_, _)
lstrip(chars, ch) ==
    IF chars # <<>> /\ Head(chars) = ch THEN lstrip(Tail(chars), ch) ELSE chars

\* str.rfind(ch), counted from 1; 0 when ch does not occur
rfind(chars, ch) ==
    IF PositionsOf(ch, chars) = {} THEN 0
    ELSE CHOOSE i \in PositionsOf(ch, chars) :
            \A j \in PositionsOf(ch, chars) : j <= i

\* PurePath.name: the final component of the path
final_component(path) == SubSeq(path, rfind(path, "/") + 1, Len(path))

\* PurePath.suffix: the name from its last dot on, when that dot is neither
\* the first nor the last character of the name
suffix(path) ==
    LET nm == final_component(path)
        i == rfind(nm, ".")
    IN  IF 1 < i /\ i < Len(nm) THEN SubSeq(nm, i, Len(nm)) ELSE <<>>

\* lines 21 and 53
inferred(path) == lstrip(lower(suffix(path)), ".")

\* the extension first, the indicator only for a path without one
ExtensionFirst(fmt, path) ==
    IF inferred(path) # <<>> THEN inferred(path) ELSE fmt.text

\* lines 22 and 54: fmt = (fmt or inferred)
EffectiveFormat(fmt, path) ==
    IF truthy(fmt) THEN fmt.text ELSE inferred(path)

csv == <<"c", "s", "v">>

xlsx == <<"x", "l", "s", "x">>

xls == <<"x", "l", "s">>

parquet == <<"p", "a", "r", "q", "u", "e", "t">>

\* an indicator that names no format handled as delimited text
DispatchDefaultCsv(fmt) ==
    CASE fmt \in {xlsx, xls} -> "excel"
      [] fmt = parquet -> "parquet"
      [] OTHER -> "csv"

\* lines 24-29 and 56-64: the branch taken for a format
Dispatch(fmt) ==
    CASE fmt = csv -> "csv"
      [] fmt \in {xlsx, xls} -> "excel"
      [] fmt = parquet -> "parquet"
      [] OTHER -> "unsupported"

\* the pandas function of a branch
Reader(kind) ==
    CASE kind = "csv" -> "read_csv"
      [] kind = "excel" -> "read_excel"
      [] kind = "parquet" -> "read_parquet"

Writer(kind) ==
    CASE kind = "csv" -> "to_csv"
      [] kind = "excel" -> "to_excel"
      [] kind = "parquet" -> "to_parquet"

\* lines 31-33 and 66-68: the ValueError and the parts of its message
UnsupportedFormat(direction, fmt) ==
    [type |-> "ValueError",
     message |-> <<direction, fmt, "'. Supported: csv, xlsx/xls, parquet.">>]

NoIOError == [type |-> "none", message |-> <<>>]

NoFile == [exists |-> FALSE, kind |-> "none", index |-> FALSE, table |-> NoTable]

\* the file a pandas writer of the kind leaves
File(kind, index, table) ==
    [exists |-> TRUE, kind |-> kind, index |-> index, table |-> table]

\* what a pandas reader does with the file at the path: it raises when there
\* is none or when the file is of another kind, and yields the table else
PandasRead(kind, file) ==
    IF ~file.exists
    THEN [pc |-> "raised", value |-> NoTable,
          error |-> [type |-> "FileNotFoundError", message |-> <<>>]]
    ELSE IF file.kind # kind
    THEN [pc |-> "raised", value |-> NoTable,
          error |-> [type |-> "ReaderError", message |-> <<>>]]
    ELSE [pc |-> "returned", value |-> file.table, error |-> NoIOError]

\* the paths given to the two functions
Paths ==
    <<<<"d", "a", "t", "a", ".", "c", "s", "v">>,
      <<"d", "a", "t", "a", ".", "C", "S", "V">>,
      <<"d", "a", "t", "a", ".", "x", "l", "s", "x">>,
      <<"d", "a", "t", "a", ".", "X", "l", "s">>,
      <<"d", "a", "t", "a", ".", "p", "a", "r", "q", "u", "e", "t">>,
      <<"d", "a", "t", "a", ".", "j", "s", "o", "n">>,
      <<"d", "a", "t", "a", ".", "c", "s", "v", ".", "b", "a", "k">>,
      <<"d", "a", "t", "a">>,
      <<"d", "a", "t", "a", ".">>,
      <<".", "c", "s", "v">>,
      <<"o", "u", "t", ".", "c", "s", "v", "/", "d", "a", "t", "a">>>>

\* the format indicators given: none, an empty text, the four formats, a
\* format in capitals, a format the functions do not know
Formats ==
    {None, Text(<<>>), Text(csv), Text(xlsx), Text(xls), Text(parquet),
     Text(<<"C", "S", "V">>), Text(<<"j", "s", "o", "n">>)}

\* the table written, and the table a file read holds
IoTable == DataFrame(CanonicalColumns, <<[p \in 1..6 |-> SoundCell(CanonicalColumns[p])]>>)

NoIO ==
    [op |-> "none", path |-> <<>>, fmt |-> None, index |-> FALSE, pc |-> "none",
     effective |-> <<>>, called |-> "none", value |-> NoTable,
     error |-> NoIOError]

\* the keyword arguments a configuration of Configs is constructed with
KwargsOf(cfg) == [drop_multi_style_shifts |-> cfg.drop_multi_style_shifts]

\* no command line run
NoJob ==
    [pc |-> "none", argv_ok |-> TRUE, input |-> <<>>, output |-> <<>>,
     input_format |-> None, output_format |-> None, exit |-> "none",
     error |-> "none"]

\* the web service before its database and its folders hold anything
NoWeb ==
    [records |-> {}, uploads |-> {}, outputs |-> {}, uuids |-> 0,
     response |-> [status |-> 0]]

(***************************************************************************)
(* The state: the calls of DataCleaner.clean.                              *)
(***************************************************************************)
Calls == {1, 2}

VARIABLES
    job,       \* the run of the command line: main and run_cleaning_job
    web,       \* the web service: its records, its folders, its last response
    files,     \* files[path]: the file at a path of the file system
    io,        \* the call of read_input_file or write_output_file
    kwargs,    \* kwargs[c]: the arguments the configuration is constructed with
    config,    \* config[c]: self.config of the cleaner the call runs on
    df_raw,    \* df_raw[c]: the caller's table (the object passed to clean)
    df,        \* df[c]: the table the local variable df refers to
    shared,    \* shared[c]: df and df_raw refer to one object
    pc,        \* pc[c]: the position of the call in the body of clean
    result,    \* result[c]: the table returned
    error      \* error[c]: the exception raised

vars == <<job, web, files, io, kwargs, config, df_raw, df, shared, pc, result, error>>

NoError == [type |-> "none", missing |-> <<>>]

\* the state before the calls in `active` start on the given tables
Start(active, tables, configs) ==
    /\ pc = [c \in Calls |-> IF c \in active THEN "start" ELSE "idle"]
    /\ df_raw = [c \in Calls |-> IF c \in active THEN tables[c] ELSE NoTable]
    /\ config = [c \in Calls |-> configs[c]]
    /\ df = [c \in Calls |-> NoTable]
    /\ shared = [c \in Calls |-> FALSE]
    /\ result = [c \in Calls |-> NoTable]
    /\ error = [c \in Calls |-> NoError]
    /\ files = [path \in Range(Paths) |-> NoFile]
    /\ io = NoIO
    /\ job = NoJob
    /\ web = NoWeb

\* one call, on any table and configuration
Init ==
    \E t \in CellTables(MaxRows) \cup HeaderTables(MaxHeaderRows), cfg \in Configs :
        /\ Start({1}, [c \in Calls |-> t], [c \in Calls |-> cfg])
        /\ kwargs = [c \in Calls |-> KwargsOf(cfg)]

\* an assignment into the object df refers to also shows in df_raw when the
\* two are one object
AssignInPlace(c, t) ==
    /\ df' = [df EXCEPT ![c] = t]
    /\ df_raw' = [df_raw EXCEPT ![c] = IF shared[c] THEN t ELSE @]
    /\ UNCHANGED shared

\* the working table kept in one place for all calls
RebindProcessWide(c, t) ==
    /\ df' = [d \in Calls |-> t]
    /\ shared' = [shared EXCEPT ![c] = FALSE]
    /\ UNCHANGED df_raw

\* df = <a new table>
Rebind(c, t) ==
    /\ df' = [df EXCEPT ![c] = t]
    /\ shared' = [shared EXCEPT ![c] = FALSE]
    /\ UNCHANGED df_raw

Raise(c, type, names) ==
    /\ pc' = [pc EXCEPT ![c] = "raised"]
    /\ error' = [error EXCEPT ![c] = [type |-> type, missing |-> names]]

Goto(c, label) ==
    /\ pc' = [pc EXCEPT ![c] = label]
    /\ UNCHANGED error

\* lines 18-21
Rename(c) ==
    /\ pc[c] = "start"
    /\ LET r == CopyAndRename(df_raw[c], config[c])
       IN  /\ df_raw' = [df_raw EXCEPT ![c] = r.df_raw]
           /\ df' = [df EXCEPT ![c] = r.df]
           /\ shared' = [shared EXCEPT ![c] = r.shared]
    /\ Goto(c, "renamed")
    /\ UNCHANGED <<job, web, files, io, kwargs, config, result>>

\* lines 23-34
Validate(c) ==
    /\ pc[c] = "renamed"
    /\ LET m == missing(df[c], config[c])
       IN  IF m # {}
           THEN \E names \in MissingReport(m) : Raise(c, "KeyError", names)
           ELSE Goto(c, "validated")
    /\ UNCHANGED <<job, web, files, io, kwargs, config, df_raw, df, shared, result>>

\* lines 36-41
CoerceTypes(c) ==
    /\ pc[c] = "validated"
    /\ LET r == Coerce(df[c], config[c])
       IN  /\ AssignInPlace(c, r.df)
           /\ IF r.raised = "none"
              THEN Goto(c, "coerced")
              ELSE Raise(c, r.raised, <<>>)
    /\ UNCHANGED <<job, web, files, io, kwargs, config, result>>

\* lines 43-44
DropRows(c) ==
    /\ pc[c] = "coerced"
    /\ Rebind(c, DropUnusable(df[c], config[c]))
    /\ Goto(c, "pruned")
    /\ UNCHANGED <<job, web, files, io, kwargs, config, result>>

\* lines 46-47
RpmFilter(c) ==
    /\ pc[c] = "pruned"
    /\ Rebind(c, FilterRpm(df[c], config[c]))
    /\ Goto(c, "rpm_filtered")
    /\ UNCHANGED <<job, web, files, io, kwargs, config, result>>

\* lines 49-54; df is bound to a new table only inside the if
MultiStyle(c) ==
    /\ pc[c] = "rpm_filtered"
    /\ LET r == DropMultiStyle(df[c], config[c])
       IN  IF r.raised = "none"
           THEN /\ df' = [df EXCEPT ![c] = r.df]
                /\ shared' = [shared EXCEPT
                                 ![c] = @ /\ ~config[c].drop_multi_style_shifts]
                /\ UNCHANGED df_raw
                /\ Goto(c, "grouped")
           ELSE /\ UNCHANGED <<df, df_raw, shared>>
                /\ Raise(c, r.raised, <<>>)
    /\ UNCHANGED <<job, web, files, io, kwargs, config, result>>

\* lines 56-64
Metrics(c) ==
    /\ pc[c] = "grouped"
    /\ AssignInPlace(c, DeriveMetrics(df[c], config[c]))
    /\ Goto(c, "derived")
    /\ UNCHANGED <<job, web, files, io, kwargs, config, result>>

\* lines 66-73
EfficiencyFilter(c) ==
    /\ pc[c] = "derived"
    /\ Rebind(c, FilterEfficiency(df[c], config[c]))
    /\ result' = [result EXCEPT ![c] = FilterEfficiency(df[c], config[c])]
    /\ Goto(c, "returned")
    /\ UNCHANGED <<job, web, files, io, kwargs, config>>

Next ==
    \E c \in Calls :
        \/ Rename(c)
        \/ Validate(c)
        \/ CoerceTypes(c)
        \/ DropRows(c)
        \/ RpmFilter(c)
        \/ MultiStyle(c)
        \/ Metrics(c)
        \/ EfficiencyFilter(c)

Spec == Init /\ [][Next]_vars

\* two calls on equal tables under equal configurations
InitTwin ==
    \E t \in CellTables(MaxTwinRows) \cup HeaderTables(MaxHeaderRows),
       cfg \in Configs :
        /\ Start({1, 2}, [c \in Calls |-> t], [c \in Calls |-> cfg])
        /\ kwargs = [c \in Calls |-> KwargsOf(cfg)]

SpecTwin == InitTwin /\ [][Next]_vars

(***************************************************************************)
(* One call of read_input_file or of write_output_file.                    *)
(***************************************************************************)
InitIO ==
    \E op \in {"read", "write"}, i \in 1..Len(Paths), fmt \in Formats,
       index \in BOOLEAN, before \in {"none", "csv", "excel", "parquet"} :
        /\ op = "read" => ~index
        /\ io = [NoIO EXCEPT !.op = op, !.path = Paths[i], !.fmt = fmt,
                             !.index = index, !.pc = "call"]
        /\ files = [path \in Range(Paths) |->
                      IF path = Paths[i] /\ before # "none"
                      THEN File(before, FALSE, IoTable)
                      ELSE NoFile]
        /\ job = NoJob
        /\ web = NoWeb
        /\ kwargs = [c \in Calls |-> <<>>]
        /\ config = [c \in Calls |-> NoConfig]
        /\ pc = [c \in Calls |-> "idle"]
        /\ df_raw = [c \in Calls |-> NoTable]
        /\ df = [c \in Calls |-> NoTable]
        /\ shared = [c \in Calls |-> FALSE]
        /\ result = [c \in Calls |-> NoTable]
        /\ error = [c \in Calls |-> NoError]

\* io.py lines 12-33
read_input_file ==
    /\ io.op = "read"
    /\ io.pc = "call"
    /\ LET fmt == EffectiveFormat(io.fmt, io.path)
           kind == Dispatch(fmt)
       IN  IF kind = "unsupported"
           THEN io' = [io EXCEPT !.pc = "raised", !.effective = fmt,
                                 !.error = UnsupportedFormat(
                                              "Unsupported input format '", fmt)]
           ELSE LET out == PandasRead(kind, files[io.path])
                IN  io' = [io EXCEPT !.pc = out.pc, !.effective = fmt,
                                     !.called = Reader(kind),
                                     !.value = out.value, !.error = out.error]
    /\ UNCHANGED <<job, web, files, kwargs, config, df_raw, df, shared, pc, result, error>>

\* io.py lines 36-68; the pandas writer writes the file or raises (no
\* engine for the file name, no room, no permission)
write_output_file ==
    /\ io.op = "write"
    /\ io.pc = "call"
    /\ LET fmt == EffectiveFormat(io.fmt, io.path)
           kind == Dispatch(fmt)
       IN  IF kind = "unsupported"
           THEN /\ io' = [io EXCEPT !.pc = "raised", !.effective = fmt,
                                    !.error = UnsupportedFormat(
                                                 "Unsupported output format '", fmt)]
                /\ UNCHANGED files
           ELSE \/ /\ io' = [io EXCEPT !.pc = "returned", !.effective = fmt,
                                       !.called = Writer(kind)]
                   /\ files' = [files EXCEPT ![io.path] =
                                   File(kind, io.index, IoTable)]
                \/ /\ io' = [io EXCEPT !.pc = "raised", !.effective = fmt,
                                       !.called = Writer(kind),
                                       !.error = [type |-> "WriterError",
                                                  message |-> <<>>]]
                   /\ UNCHANGED files
    /\ UNCHANGED <<job, web, kwargs, config, df_raw, df, shared, pc, result, error>>

NextIO ==
    \/ read_input_file
    \/ write_output_file

SpecIO == InitIO /\ [][NextIO]_vars

(***************************************************************************)
(* Two calls that run at the same time, each on a table and under a        *)
(* configuration of its own.                                               *)
(***************************************************************************)
\* most rows of a table given to one of two concurrent calls
MaxConcurrentRows == 2

\* a sound row of each style, both of one shift
ConcurrentRowCells ==
    {<<DateValues[1], Str(<<"Day">>), MachineValue, st, RunTimeValues[1],
       RpmValues[1]>> : st \in StyleValues}

\* tables of such rows, and a table that lacks the RPM column
ConcurrentTables(maxRows) ==
    {DataFrame(CanonicalColumns, cells) :
        cells \in UNION {[1..n -> ConcurrentRowCells] : n \in 0..maxRows}}
    \cup {DataFrame(SubSeq(CanonicalColumns, 1, 5), <<>>)}

InitConcurrent ==
    \E tables \in [Calls -> ConcurrentTables(MaxConcurrentRows)],
       configs \in [Calls -> Configs] :
        /\ Start(Calls, tables, configs)
        /\ kwargs = [c \in Calls |-> KwargsOf(configs[c])]

SpecConcurrent == InitConcurrent /\ [][Next]_vars

(***************************************************************************)
(* Calls under configurations that vary the spindle count, the shift       *)
(* length and the lower efficiency bound, on tables whose run times are    *)
(* clock texts HH:MM:SS.                                                   *)
(***************************************************************************)
\* most rows of a table of clock texts
MaxMetricRows == 2

\* 06:00:00, 07:30:15, 08:00:00, 12:00:00
ClockTexts ==
    <<<<"0", "6", ":", "0", "0", ":", "0", "0">>,
      <<"0", "7", ":", "3", "0", ":", "1", "5">>,
      <<"0", "8", ":", "0", "0", ":", "0", "0">>,
      <<"1", "2", ":", "0", "0", ":", "0", "0">>>>

ClockRowCells ==
    {<<DateValues[1], Str(<<"Day">>), MachineValue, Str(<<"Style A">>),
       Str(ClockTexts[i]), RpmValues[1]>> : i \in 1..Len(ClockTexts)}

ClockTables(maxRows) ==
    {DataFrame(CanonicalColumns, cells) :
        cells \in UNION {[1..n -> ClockRowCells] : n \in 0..maxRows}}

\* spindles_per_side of 1, 2 and the default 84; shift_hours of 8.0 and 7.5;
\* efficiency_min of 0.0 and the default 75.0
MetricKwargs ==
    {[spindles_per_side |-> sp, shift_hours |-> h, efficiency_min |-> e] :
        sp \in {1, 2, 84}, h \in {Num(8, 1), Num(15, 2)},
        e \in {Num(0, 1), Num(75, 1)}}

InitMetrics ==
    \E t \in ClockTables(MaxMetricRows), kw \in MetricKwargs :
        /\ Start({1}, [c \in Calls |-> t], [c \in Calls |-> DataCleaningConfig(kw)])
        /\ kwargs = [c \in Calls |-> kw]

SpecMetrics == InitMetrics /\ [][Next]_vars

(***************************************************************************)
(* Construction of the configuration, followed by a call of clean on the   *)
(* cleaner that holds it.                                                  *)
(***************************************************************************)
\* most rows of a table given to a cleaner whose configuration is being
\* constructed
MaxConfigRows == 1

\* the rename_map arguments a caller passes: none or an empty map, an entry
\* for a header of the caller's own, an entry under a built-in key, both
RenameMapArgs ==
    {<<>>,
     "Speed" :> "RPM",
     "Shift\nperiod" :> "Shift",
     ("Speed" :> "RPM") @@ ("Shift\nperiod" :> "Shift")}

\* the keyword arguments of the constructor: with or without rename_map
ConstructorKwargs ==
    {[drop_multi_style_shifts |-> b] : b \in BOOLEAN}
    \cup {[drop_multi_style_shifts |-> b, rename_map |-> m] :
            b \in BOOLEAN, m \in RenameMapArgs}

\* tables of sound rows that carry the shift, the run time and the RPM under
\* a raw header or under the canonical one
RawHeaderTables(maxRows) ==
    {LET columns == <<"Date", sh, "Machine-number", "Style-description", rt, rp>>
     IN  DataFrame(columns,
                   [i \in 1..n |-> [p \in 1..Len(columns) |-> SoundCell(columns[p])]]) :
        sh \in {"Shift\nperiod", "Shift_period"},
        rt \in {"Run\ntime", "Run_time"},
        rp \in {"Speed", "RPM"},
        n \in 0..maxRows}

InitConfig ==
    \E t \in RawHeaderTables(MaxConfigRows), kw \in ConstructorKwargs :
        /\ kwargs = [c \in Calls |-> kw]
        /\ config = [c \in Calls |-> NoConfig]
        /\ pc = [c \in Calls |-> IF c = 1 THEN "new" ELSE "idle"]
        /\ df_raw = [c \in Calls |-> IF c = 1 THEN t ELSE NoTable]
        /\ df = [c \in Calls |-> NoTable]
        /\ shared = [c \in Calls |-> FALSE]
        /\ result = [c \in Calls |-> NoTable]
        /\ error = [c \in Calls |-> NoError]
        /\ files = [path \in Range(Paths) |-> NoFile]
        /\ io = NoIO
        /\ job = NoJob
        /\ web = NoWeb

\* cfg = DataCleaningConfig(**kwargs); DataCleaner(config=cfg)
Construct(c) ==
    /\ pc[c] = "new"
    /\ config' = [config EXCEPT ![c] = DataCleaningConfig(kwargs[c])]
    /\ pc' = [pc EXCEPT ![c] = "start"]
    /\ UNCHANGED <<job, web, files, io, kwargs, df_raw, df, shared, result, error>>

NextConfig ==
    \E c \in Calls :
        \/ Construct(c)
        \/ Rename(c)
        \/ Validate(c)
        \/ CoerceTypes(c)
        \/ DropRows(c)
        \/ RpmFilter(c)
        \/ MultiStyle(c)
        \/ Metrics(c)
        \/ EfficiencyFilter(c)

SpecConfig == InitConfig /\ [][NextConfig]_vars

(***************************************************************************)
(* The command line (cli.py) and the job it runs (app.py): main parses the *)
(* arguments, constructs the configuration and calls run_cleaning_job,     *)
(* which reads the input file, cleans the table and writes the output.     *)
(***************************************************************************)
\* cli.py lines 33-40: the arguments main constructs the configuration with
MainKwargs(keep_multi_style_shifts) ==
    [rpm_max |-> Num(10000, 1),
     efficiency_min |-> Num(75, 1),
     efficiency_max |-> Num(100, 1),
     spindles_per_side |-> 84,
     shift_hours |-> Num(8, 1),
     drop_multi_style_shifts |-> ~keep_multi_style_shifts]

\* the tables an input file holds: a sound row, a table without the RPM
\* column, a row whose RPM is no number
JobTables ==
    {IoTable,
     DataFrame(SubSeq(CanonicalColumns, 1, 5),
               <<[p \in 1..5 |-> SoundCell(CanonicalColumns[p])]>>),
     DataFrame(CanonicalColumns,
               <<[p \in 1..6 |-> IF p = 6 THEN Str(Garbage)
                                 ELSE SoundCell(CanonicalColumns[p])]>>)}

\* every run ends with status 0
ExitStatusZero(j) == 0

\* cli.py lines 49-53: SystemExit(main()) gives status 0 when main returns;
\* argparse leaves with status 2, and the interpreter ends with status 1 on
\* any other exception that leaves main
ExitStatus(j) ==
    IF j.pc = "written" THEN 0
    ELSE IF j.error = "SystemExit" THEN 2
    ELSE 1

\* the input file is there or not, as csv or as parquet; the output path is
\* free or holds an older file
InitJob ==
    \E argv_ok \in BOOLEAN, keep \in BOOLEAN,
       input \in {Paths[1], Paths[5], Paths[6]},
       output \in {Paths[1], Paths[3], Paths[8]},
       input_format \in {None, Text(csv), Text(<<"j", "s", "o", "n">>)},
       output_format \in {None, Text(csv), Text(<<"j", "s", "o", "n">>)},
       holds \in {"none", "csv", "parquet"}, t \in JobTables, old \in BOOLEAN :
        /\ holds = "none" => t = IoTable
        /\ job = [NoJob EXCEPT !.pc = "main", !.argv_ok = argv_ok,
                               !.input = input, !.output = output,
                               !.input_format = input_format,
                               !.output_format = output_format]
        /\ files = [path \in Range(Paths) |->
                      IF path = input /\ holds # "none" THEN File(holds, FALSE, t)
                      ELSE IF path = output /\ old THEN File("csv", FALSE, IoTable)
                      ELSE NoFile]
        /\ kwargs = [c \in Calls |-> MainKwargs(keep)]
        /\ config = [c \in Calls |-> NoConfig]
        /\ pc = [c \in Calls |-> "idle"]
        /\ df_raw = [c \in Calls |-> NoTable]
        /\ df = [c \in Calls |-> NoTable]
        /\ shared = [c \in Calls |-> FALSE]
        /\ result = [c \in Calls |-> NoTable]
        /\ error = [c \in Calls |-> NoError]
        /\ io = NoIO
        /\ web = NoWeb

\* cli.py lines 31-40: parse_args leaves with SystemExit on a command line
\* it does not accept
ParseArgs ==
    /\ job.pc = "main"
    /\ IF job.argv_ok
       THEN /\ job' = [job EXCEPT !.pc = "parsed"]
            /\ config' = [config EXCEPT ![1] = DataCleaningConfig(kwargs[1])]
       ELSE /\ job' = [job EXCEPT !.pc = "raised", !.error = "SystemExit"]
            /\ UNCHANGED config
    /\ UNCHANGED <<web, files, io, kwargs, df_raw, df, shared, pc, result, error>>

\* app.py line 21, and the call of clean of lines 22-23
JobRead ==
    /\ job.pc = "parsed"
    /\ LET fmt == EffectiveFormat(job.input_format, job.input)
           kind == Dispatch(fmt)
           out == PandasRead(kind, files[job.input])
       IN  IF kind = "unsupported"
           THEN /\ job' = [job EXCEPT !.pc = "raised", !.error = "ValueError"]
                /\ UNCHANGED <<df_raw, pc>>
           ELSE IF out.pc = "raised"
           THEN /\ job' = [job EXCEPT !.pc = "raised", !.error = out.error.type]
                /\ UNCHANGED <<df_raw, pc>>
           ELSE /\ job' = [job EXCEPT !.pc = "cleaning"]
                /\ df_raw' = [df_raw EXCEPT ![1] = out.value]
                /\ pc' = [pc EXCEPT ![1] = "start"]
    /\ UNCHANGED <<web, files, io, kwargs, config, df, shared, result, error>>

\* app.py line 23: clean returns df_clean, or its exception leaves the job
JobClean ==
    /\ job.pc = "cleaning"
    /\ pc[1] \in {"returned", "raised"}
    /\ job' = IF pc[1] = "returned"
              THEN [job EXCEPT !.pc = "cleaned"]
              ELSE [job EXCEPT !.pc = "raised", !.error = error[1].type]
    /\ UNCHANGED <<web, files, io, kwargs, config, df_raw, df, shared, pc, result,
                   error>>

\* the output written from the table read, before clean has returned
JobWriteEarly ==
    /\ job.pc = "cleaning"
    /\ files' = [files EXCEPT ![job.output] = File("csv", FALSE, df_raw[1])]
    /\ UNCHANGED <<job, web, io, kwargs, config, df_raw, df, shared, pc, result,
                   error>>

\* app.py line 24; a pandas writer that raises leaves the path as it was or
\* leaves a file cut short
JobWrite ==
    /\ job.pc = "cleaned"
    /\ LET fmt == EffectiveFormat(job.output_format, job.output)
           kind == Dispatch(fmt)
       IN  IF kind = "unsupported"
           THEN /\ job' = [job EXCEPT !.pc = "raised", !.error = "ValueError"]
                /\ UNCHANGED files
           ELSE \/ /\ job' = [job EXCEPT !.pc = "written"]
                   /\ files' = [files EXCEPT ![job.output] =
                                   File(kind, FALSE, result[1])]
                \/ /\ job' = [job EXCEPT !.pc = "raised", !.error = "WriterError"]
                   /\ files' \in {files,
                                  [files EXCEPT ![job.output] =
                                      File("cut short", FALSE, NoTable)]}
    /\ UNCHANGED <<web, io, kwargs, config, df_raw, df, shared, pc, result, error>>

\* cli.py lines 49 and 53: the status the process ends with
Exit ==
    /\ job.pc \in {"written", "raised"}
    /\ job' = [job EXCEPT !.pc = "exited", !.exit = ExitStatus(job)]
    /\ UNCHANGED <<web, files, io, kwargs, config, df_raw, df, shared, pc, result,
                   error>>

NextJob ==
    \/ ParseArgs
    \/ JobRead
    \/ JobClean
    \/ JobWrite
    \/ Exit
    \/ \E c \in Calls :
        \/ Rename(c)
        \/ Validate(c)
        \/ CoerceTypes(c)
        \/ DropRows(c)
        \/ RpmFilter(c)
        \/ MultiStyle(c)
        \/ Metrics(c)
        \/ EfficiencyFilter(c)

SpecJob == InitJob /\ [][NextJob]_vars

(***************************************************************************)
(* One call on rows of one date whose shift, machine or style may be       *)
(* missing, among them rows that Stage 4, Stage 5 or Stage 8 drops.        *)
(***************************************************************************)
MaxGroupRows == 2

\* a sound row of any style or of none under each (shift, machine), and for
\* each style a row with an unparseable run time, a row over rpm_max and a
\* row under efficiency_min
GroupRowCells ==
    LET keys == {<<Str(<<"Day">>), MachineValue>>, <<Null, MachineValue>>,
                 <<Str(<<"Day">>), Null>>}
    IN  {<<DateValues[1], k[1], k[2], st, RunTimeValues[1], RpmValues[1]>> :
            k \in keys, st \in StyleValues \cup {Null}}
        \cup {<<DateValues[1], k[1], k[2], st, q[1], q[2]>> :
                k \in keys, st \in StyleValues,
                q \in {<<RunTimeValues[5], RpmValues[1]>>,
                       <<RunTimeValues[1], RpmValues[2]>>,
                       <<RunTimeValues[3], RpmValues[1]>>}}

InitGroups ==
    \E cells \in UNION {[1..n -> GroupRowCells] : n \in 0..MaxGroupRows},
       cfg \in Configs :
        /\ Start({1}, [c \in Calls |-> DataFrame(CanonicalColumns, cells)],
                 [c \in Calls |-> cfg])
        /\ kwargs = [c \in Calls |-> KwargsOf(cfg)]

SpecGroups == InitGroups /\ [][Next]_vars

(***************************************************************************)
(* One call on tables that carry columns beyond the six required ones: a   *)
(* column the pipeline does not know, and columns that already bear the    *)
(* name of a column the pipeline assigns.                                  *)
(***************************************************************************)
MaxFrameRows == 1

FrameTables(maxRows) ==
    {LET columns == <<"Date", sh, "Machine-number", "Style-description", rt, "RPM">>
                    \o extra
         cell(header) ==
            CASE header = "RPM" -> rpm
              [] header \in {"Run_time_seconds", "Machine_Efficiency"} -> Num(1, 1)
              [] OTHER -> SoundCell(header)
     IN  DataFrame(columns, [i \in 1..n |-> [p \in 1..Len(columns) |-> cell(columns[p])]]) :
        sh \in {"Shift\nperiod", "Shift_period"},
        rt \in {"Run\ntime", "Run_time"},
        extra \in {<<>>, <<"Operator">>, <<"Machine_Efficiency">>,
                   <<"Operator", "Run_time_seconds">>},
        rpm \in {RpmValues[1], RpmValues[3]},
        n \in 0..maxRows}

InitFrame ==
    \E t \in FrameTables(MaxFrameRows), cfg \in Configs :
        /\ Start({1}, [c \in Calls |-> t], [c \in Calls |-> cfg])
        /\ kwargs = [c \in Calls |-> KwargsOf(cfg)]

SpecFrame == InitFrame /\ [][Next]_vars

(***************************************************************************)
(* clean called on the table clean returned, under the same configuration. *)
(***************************************************************************)
MaxAgainRows == 2

InitAgain ==
    \E t \in {DataFrame(CanonicalColumns, cells) :
                cells \in UNION {[1..n -> {r \in GroupRowCells : r[3] = MachineValue}] :
                                    n \in 0..MaxAgainRows}}
             \cup FrameTables(MaxFrameRows) \cup HeaderTables(MaxHeaderRows),
       cfg \in Configs :
        /\ Start({1}, [c \in Calls |-> t], [c \in Calls |-> cfg])
        /\ kwargs = [c \in Calls |-> KwargsOf(cfg)]

\* cleaner.clean(cleaner.clean(df_raw)): the second call starts on the table
\* the first has returned
CleanAgain ==
    /\ pc[1] = "returned"
    /\ pc[2] = "idle"
    /\ df_raw' = [df_raw EXCEPT ![2] = result[1]]
    /\ pc' = [pc EXCEPT ![2] = "start"]
    /\ UNCHANGED <<job, web, files, io, kwargs, config, df, shared, result, error>>

NextAgain ==
    \/ CleanAgain
    \/ \E c \in Calls :
        \/ Rename(c)
        \/ Validate(c)
        \/ CoerceTypes(c)
        \/ DropRows(c)
        \/ RpmFilter(c)
        \/ MultiStyle(c)
        \/ Metrics(c)
        \/ EfficiencyFilter(c)

SpecAgain == InitAgain /\ [][NextAgain]_vars

(***************************************************************************)
(* The web service (web/backend/app.py): the records of the data_files     *)
(* table, the upload and the output folder, and the response to the last   *)
(* request.  A request handler runs from the request to its response.      *)
(***************************************************************************)
\* the stored file names the service generates in a run (uuid4 gives each
\* name once)
MaxStored == 3

\* app.py lines 46-48
allowed_file(filename) ==
    /\ "." \in Range(filename)
    /\ lower(SubSeq(filename, rfind(filename, ".") + 1, Len(filename)))
          \in {csv, xlsx, xls, parquet}

\* a record that owns no outputs
NoOutputs(records, file) == {}

\* models.py lines 26-27: file.outputs, the records whose parent is file
outputs(records, file) == {o \in records : o.parent_id = file.id}

\* the id the database gives a new row of data_files: an INTEGER PRIMARY
\* KEY of SQLite is one more than the largest id in the table
NextId(records) ==
    IF records = {} THEN 1
    ELSE 1 + CHOOSE n \in {r.id : r \in records} : \A r \in records : r.id <= n

\* the path of a stored file: <uuid4().hex>.<ext>
StoredPath(stored) == <<"f", ".">> \o stored[2]

InitWeb ==
    /\ Start({}, [c \in Calls |-> NoTable], [c \in Calls |-> NoConfig])
    /\ kwargs = [c \in Calls |-> <<>>]

\* app.py lines 171-224; the file sent is of some kind and holds a table
upload_file(filename, kind, t) ==
    /\ web.uuids < MaxStored
    /\ IF ~filename.given \/ filename.text = <<>> \/ ~allowed_file(filename.text)
       THEN web' = [web EXCEPT !.response =
                       [request |-> "upload", id |-> 0, status |-> 400]]
       ELSE LET name == filename.text
                file_ext == lower(SubSeq(name, rfind(name, ".") + 1, Len(name)))
                stored == <<web.uuids + 1, file_ext>>
                read == PandasRead(Dispatch(inferred(StoredPath(stored))),
                                   File(kind, FALSE, t))
            IN  IF read.pc = "raised"
                THEN web' = [web EXCEPT
                                !.uuids = @ + 1,
                                !.response = [request |-> "upload", id |-> 0,
                                              status |-> 400]]
                ELSE web' = [web EXCEPT
                                !.uuids = @ + 1,
                                !.uploads = @ \cup
                                    {[name |-> stored, file |-> File(kind, FALSE, t)]},
                                !.records = @ \cup
                                    {[id |-> NextId(web.records),
                                      category |-> "input", parent_id |-> 0,
                                      stored_filename |-> stored,
                                      file_type |-> file_ext]},
                                !.response = [request |-> "upload",
                                              id |-> NextId(web.records),
                                              status |-> 201]]
    /\ UNCHANGED <<job, files, io, kwargs, config, df_raw, df, shared, pc, result,
                   error>>

\* app.py lines 226-296; output_format is the entry of the request's JSON,
\* None when it has none
process_file(file_id, output_format, drop_multi_style_shifts) ==
    /\ web.uuids < MaxStored
    /\ LET found == {r \in web.records : r.id = file_id}
           input_file == CHOOSE r \in found : TRUE
           respond(status) == [request |-> "process", id |-> file_id,
                               status |-> status]
       IN  IF found = {}
           THEN web' = [web EXCEPT !.response = respond(404)]
           ELSE IF input_file.category # "input"
           THEN web' = [web EXCEPT !.response = respond(400)]
           ELSE LET on_disk == {f \in web.uploads :
                                   f.name = input_file.stored_filename}
                    read == PandasRead(
                                Dispatch(inferred(StoredPath(input_file.stored_filename))),
                                IF on_disk = {} THEN NoFile
                                ELSE (CHOOSE f \in on_disk : TRUE).file)
                    cleaned == clean(read.value,
                                     DataCleaningConfig(
                                         [drop_multi_style_shifts |->
                                             drop_multi_style_shifts]))
                    output_ext == IF output_format.given THEN output_format.text
                                  ELSE input_file.file_type
                    stored == <<web.uuids + 1, output_ext>>
                    kind == Dispatch(inferred(StoredPath(stored)))
                IN  IF read.pc = "raised" \/ cleaned.raised # "none"
                    THEN web' = [web EXCEPT !.response = respond(500)]
                    ELSE IF kind = "unsupported"
                    THEN web' = [web EXCEPT !.uuids = @ + 1,
                                            !.response = respond(500)]
                    ELSE \/ web' = [web EXCEPT
                                       !.uuids = @ + 1,
                                       !.outputs = @ \cup
                                           {[name |-> stored,
                                             file |-> File(kind, FALSE, cleaned.df)]},
                                       !.records = @ \cup
                                           {[id |-> NextId(web.records),
                                             category |-> "output",
                                             parent_id |-> input_file.id,
                                             stored_filename |-> stored,
                                             file_type |-> output_ext]},
                                       !.response = respond(200)]
                         \/ web' = [web EXCEPT !.uuids = @ + 1,
                                               !.response = respond(500)]
    /\ UNCHANGED <<job, files, io, kwargs, config, df_raw, df, shared, pc, result,
                   error>>

\* app.py lines 145-169
delete_file(file_id) ==
    /\ LET found == {r \in web.records : r.id = file_id}
           file == CHOOSE r \in found : TRUE
           owned == outputs(web.records, file)
       IN  IF found = {}
           THEN web' = [web EXCEPT !.response =
                           [request |-> "delete", id |-> file_id, status |-> 404]]
           ELSE web' = [web EXCEPT
                           !.uploads = IF file.category = "input"
                                       THEN {f \in @ : f.name # file.stored_filename}
                                       ELSE @,
                           !.outputs = {f \in @ :
                                           /\ file.category = "input"
                                                 \/ f.name # file.stored_filename
                                           /\ \A o \in owned :
                                                 f.name # o.stored_filename},
                           !.records = (@ \ owned) \ {file},
                           !.response = [request |-> "delete", id |-> file_id,
                                         status |-> 200]]
    /\ UNCHANGED <<job, files, io, kwargs, config, df_raw, df, shared, pc, result,
                   error>>

NextWeb ==
    \/ \E filename \in {None, Text(<<>>), Text(Paths[1]), Text(Paths[2]),
                        Text(Paths[6]), Text(Paths[8])},
          kind \in {"csv", "excel"}, t \in JobTables :
            upload_file(filename, kind, t)
    \/ \E file_id \in 1..(MaxStored + 1),
          output_format \in {None, Text(csv), Text(<<"j", "s", "o", "n">>)},
          flag \in BOOLEAN :
            process_file(file_id, output_format, flag)
    \/ \E file_id \in 1..(MaxStored + 1) : delete_file(file_id)

SpecWeb == InitWeb /\ [][NextWeb]_vars

(***************************************************************************)
(* The file-data endpoint of the web service, on a stored input file of    *)
(* any length.                                                             *)
(***************************************************************************)
\* the longest table stored
MaxTotalRows == 1000

\* app.py line 98: the cap on per_page
MaxPerPage == 500

\* Python's a // b, b # 0: the quotient rounded towards minus infinity
FloorDiv(a, b) ==
    IF b > 0
    THEN (IF a >= 0 THEN a \div b ELSE -((-a + b - 1) \div b))
    ELSE (IF a <= 0 THEN (-a) \div (-b) ELSE -((a + (-b) - 1) \div (-b)))

\* df.iloc[start:stop]: a negative bound counts from the end, and both
\* bounds are clipped to the table
iloc(t, start, stop) ==
    LET n == Len(t.rows)
        clip(i) == IF i < 0 THEN (IF i + n < 0 THEN 0 ELSE i + n)
                   ELSE (IF i > n THEN n ELSE i)
    IN  [t EXCEPT !.rows = SubSeq(t.rows, clip(start) + 1, clip(stop))]

\* the record and the file an upload of a csv file of n rows leaves
InitPages ==
    \E n \in {0, 1, 2, MaxPerPage - 1, MaxPerPage, MaxPerPage + 1, MaxPerPage + 2,
              MaxTotalRows} :
        /\ job = NoJob
        /\ files = [path \in Range(Paths) |-> NoFile]
        /\ io = NoIO
        /\ kwargs = [c \in Calls |-> <<>>]
        /\ config = [c \in Calls |-> NoConfig]
        /\ pc = [c \in Calls |-> "idle"]
        /\ df_raw = [c \in Calls |-> NoTable]
        /\ df = [c \in Calls |-> NoTable]
        /\ shared = [c \in Calls |-> FALSE]
        /\ result = [c \in Calls |-> NoTable]
        /\ error = [c \in Calls |-> NoError]
        /\ web = [NoWeb EXCEPT
                    !.uuids = 1,
                    !.uploads = {[name |-> <<1, csv>>,
                                  file |-> File("csv", FALSE,
                                                DataFrame(<<"RPM">>,
                                                          [i \in 1..n |-> <<Num(i, 1)>>]))]},
                    !.records = {[id |-> 1, category |-> "input", parent_id |-> 0,
                                  stored_filename |-> <<1, csv>>,
                                  file_type |-> csv]}]

\* app.py lines 78-124; page and per_page are the integers of the query
get_file_data(file_id, page, per_page) ==
    /\ LET found == {r \in web.records : r.id = file_id}
           file == CHOOSE r \in found : TRUE
           folder == IF file.category = "input" THEN web.uploads ELSE web.outputs
           on_disk == {f \in folder : f.name = file.stored_filename}
           read == PandasRead(Dispatch(inferred(StoredPath(file.stored_filename))),
                              (CHOOSE f \in on_disk : TRUE).file)
           capped == IF per_page < MaxPerPage THEN per_page ELSE MaxPerPage
           total_rows == Len(read.value.rows)
           total_pages == FloorDiv(total_rows + capped - 1, capped)
           start_idx == (page - 1) * capped
           end_idx == start_idx + capped
           respond(status) ==
               [request |-> "data", id |-> file_id,
                args |-> [page |-> page, per_page |-> per_page], status |-> status]
       IN  IF found = {} \/ on_disk = {}
           THEN web' = [web EXCEPT !.response = respond(404)]
           ELSE IF read.pc = "raised" \/ capped = 0
           THEN web' = [web EXCEPT !.response = respond(500)]
           ELSE web' = [web EXCEPT !.response =
                           respond(200) @@
                           [columns |-> read.value.columns,
                            data |-> iloc(read.value, start_idx, end_idx).rows,
                            pagination |-> [page |-> page, per_page |-> capped,
                                            total_rows |-> total_rows,
                                            total_pages |-> total_pages]]]
    /\ UNCHANGED <<job, files, io, kwargs, config, df_raw, df, shared, pc, result,
                   error>>

NextPages ==
    \E file_id \in {1, 2}, page \in -2..3,
       per_page \in {-MaxPerPage - 1, -2, -1, 0, 1, 2, 50, MaxPerPage - 1,
                     MaxPerPage, MaxPerPage + 1, 2 * MaxPerPage} :
        get_file_data(file_id, page, per_page)

SpecPages == InitPages /\ [][NextPages]_vars

(***************************************************************************)
(* What the claims speak of.                                               *)
(***************************************************************************)
Finished(c) == pc[c] \in {"returned", "raised"}

\* the labels of the rows of a table, in order
Labels(t) == [i \in 1..Len(t.rows) |-> t.rows[i].idx]

\* the header a raw header has after Stage 1
Renamed(header, cfg) ==
    IF header \in DOMAIN cfg.rename_map THEN cfg.rename_map[header] ELSE header

\* the required columns the table given to call c lacks after renaming
Lacking(c) ==
    {name \in {config[c].col_date, config[c].col_shift, config[c].col_machine,
               config[c].col_style, config[c].col_runtime, config[c].col_rpm} :
        \A p \in 1..Len(df_raw[c].columns) :
            Renamed(df_raw[c].columns[p], config[c]) # name}

\* a list of headers in ascending string order, without repetition
Ascending(names) ==
    \A i, j \in 1..Len(names) : i < j => Rank(names[i]) < Rank(names[j])

(***************************************************************************)
(* C1. clean leaves the table it was given unchanged: no step of a call,   *)
(* on the way to a returned table or to an error, changes the headers, the *)
(* row order or a cell of the caller's table.                              *)
(***************************************************************************)
C1_InputUnchanged == [][\A c \in Calls : df_raw'[c] = df_raw[c]]_vars

\* a call has returned a table that differs from the one it was given
C1_Witness ==
    /\ pc[1] = "returned"
    /\ Len(df_raw[1].rows) = 2
    /\ Len(result[1].rows) = 1
    /\ result[1].columns # df_raw[1].columns

(***************************************************************************)
(* C2. If a required column is absent after renaming, the call goes from   *)
(* validation straight to the error: no later stage is ever entered, no    *)
(* table is returned, and the error lists exactly the absent columns in    *)
(* ascending order.                                                        *)
(***************************************************************************)
C2_SchemaError ==
    \A c \in Calls :
        (pc[c] \notin {"idle", "start"} /\ Lacking(c) # {}) =>
            /\ pc[c] \in {"renamed", "raised"}
            /\ result[c] = NoTable
            /\ pc[c] = "raised" =>
                  /\ error[c].type = "KeyError"
                  /\ Range(error[c].missing) = Lacking(c)
                  /\ Len(error[c].missing) = Cardinality(Lacking(c))
                  /\ Ascending(error[c].missing)

\* a call has failed on several missing columns although the raw shift
\* header was renamed to the required one
C2_Witness ==
    /\ pc[1] = "raised"
    /\ error[1].type = "KeyError"
    /\ Len(error[1].missing) >= 3
    /\ "Shift\nperiod" \in Range(df_raw[1].columns)
    /\ "Shift_period" \notin Range(error[1].missing)

(***************************************************************************)
(* C3. A call on a table that has all six required columns after renaming  *)
(* never fails.                                                            *)
(***************************************************************************)
C3_NeverFails ==
    \A c \in Calls : (pc[c] # "idle" /\ Lacking(c) = {}) => pc[c] # "raised"

\* the headers of the table given to call c stay distinct under Stage 1
DistinctAfterRename(c) ==
    \A p, q \in 1..Len(df_raw[c].columns) :
        p # q => Renamed(df_raw[c].columns[p], config[c])
                    # Renamed(df_raw[c].columns[q], config[c])

\* what does hold: a call on a table that has all six required columns
\* after renaming, each under one header only, never fails
C3_NeverFailsOnDistinctHeaders ==
    \A c \in Calls :
        (pc[c] # "idle" /\ Lacking(c) = {} /\ DistinctAfterRename(c)) =>
            pc[c] # "raised"

\* the cell a row of raw table t holds in the column that Stage 1 names `name`
RawCell(t, cfg, row, name) ==
    row.cells[CHOOSE p \in 1..Len(t.columns) : Renamed(t.columns[p], cfg) = name]

\* a row whose date, RPM or run time is missing or cannot be parsed
MalformedRow(t, cfg, row) ==
    \/ isna(to_datetime(RawCell(t, cfg, row, cfg.col_date)))
    \/ isna(to_numeric(RawCell(t, cfg, row, cfg.col_rpm)))
    \/ isna(total_seconds(astype_string(RawCell(t, cfg, row, cfg.col_runtime))))

\* raw table t without its malformed rows, labels kept
WithoutMalformed(t, cfg) ==
    loc(t, [i \in 1..Len(t.rows) |-> ~MalformedRow(t, cfg, t.rows[i])])

Malformed(c, row) == MalformedRow(df_raw[c], config[c], row)

C5_RpmFilter ==
    /\ [][\A c \in Calls :
            (pc[c] = "pruned" /\ pc'[c] = "rpm_filtered") =>
                \A i \in 1..Len(df[c].rows) :
                    LET rpm == Cell(df[c], df[c].rows[i], config[c].col_rpm)
                    IN  df[c].rows[i] \in Range(df'[c].rows)
                            <=> rpm.n * config[c].rpm_max.d
                                    <= config[c].rpm_max.n * rpm.d]_vars
    /\ [](\A c \in Calls :
            pc[c] = "returned" =>
                \A i \in 1..Len(result[c].rows) :
                    LET rpm == Cell(result[c], result[c].rows[i], config[c].col_rpm)
                    IN  /\ rpm.k = "num"
                        /\ rpm.n * config[c].rpm_max.d <= config[c].rpm_max.n * rpm.d)

\* the filter has run on a row at rpm_max and a row one above: the first is
\* kept, the second is not
C5_Witness ==
    /\ pc[1] = "rpm_filtered"
    /\ Len(df_raw[1].rows) = 2
    /\ df_raw[1].rows[1].cells[6] = config[1].rpm_max
    /\ df_raw[1].rows[2].cells[6] = Num(config[1].rpm_max.n + 1, 1)
    /\ Labels(df[1]) = <<0>>

(***************************************************************************)
(* C6. The efficiency filter keeps a row exactly when                      *)
(* efficiency_min <= Machine_Efficiency <= efficiency_max, both ends       *)
(* included, and every row of a returned table is within that range.       *)
(***************************************************************************)
C6_EfficiencyFilter ==
    /\ [][\A c \in Calls :
            (pc[c] = "derived" /\ pc'[c] = "returned") =>
                \A i \in 1..Len(df[c].rows) :
                    LET e == Cell(df[c], df[c].rows[i], "Machine_Efficiency")
                        lo == config[c].efficiency_min
                        hi == config[c].efficiency_max
                    IN  df[c].rows[i] \in Range(result'[c].rows)
                            <=> /\ lo.n * e.d <= e.n * lo.d
                                /\ e.n * hi.d <= hi.n * e.d]_vars
    /\ [](\A c \in Calls :
            pc[c] = "returned" =>
                \A i \in 1..Len(result[c].rows) :
                    LET e == Cell(result[c], result[c].rows[i], "Machine_Efficiency")
                        lo == config[c].efficiency_min
                        hi == config[c].efficiency_max
                    IN  /\ e.k = "num"
                        /\ lo.n * e.d <= e.n * lo.d
                        /\ e.n * hi.d <= hi.n * e.d)

\* a returned table holds a row exactly at efficiency_max and a row exactly
\* at efficiency_min
C6_Witness ==
    /\ pc[1] = "returned"
    /\ Len(result[1].rows) = 2
    /\ Cell(result[1], result[1].rows[1], "Machine_Efficiency")
          = config[1].efficiency_max
    /\ Cell(result[1], result[1].rows[2], "Machine_Efficiency")
          = config[1].efficiency_min

\* the styles, missing ones aside, of the rows of t in the group of row
StylesInGroup(t, row, cfg) ==
    {Cell(t, t.rows[j], cfg.col_style) :
        j \in {k \in 1..Len(t.rows) :
                 /\ Cell(t, t.rows[k], cfg.col_date) = Cell(t, row, cfg.col_date)
                 /\ Cell(t, t.rows[k], cfg.col_shift) = Cell(t, row, cfg.col_shift)
                 /\ Cell(t, t.rows[k], cfg.col_machine)
                       = Cell(t, row, cfg.col_machine)}}
    \ {Null}

(***************************************************************************)
(* C7. With drop_multi_style_shifts enabled, Stage 6 removes a row exactly *)
(* when its (date, shift, machine) group holds more than one distinct      *)
(* style among the rows that reached the stage.                            *)
(***************************************************************************)
C7_MultiStyleGroupsRemoved ==
    [][\A c \in Calls :
        (/\ pc[c] = "rpm_filtered"
         /\ pc'[c] = "grouped"
         /\ config[c].drop_multi_style_shifts) =>
            /\ Range(df'[c].rows) \subseteq Range(df[c].rows)
            /\ \A i \in 1..Len(df[c].rows) :
                  df[c].rows[i] \notin Range(df'[c].rows)
                      <=> Cardinality(StylesInGroup(df[c], df[c].rows[i],
                                                    config[c])) > 1]_vars

\* Stage 6 has run on two sound rows of one shift with two styles and has
\* removed both
C7_Witness ==
    /\ pc[1] = "grouped"
    /\ config[1].drop_multi_style_shifts
    /\ Len(df_raw[1].rows) = 2
    /\ \A i \in 1..2 :
          /\ ~Malformed(1, df_raw[1].rows[i])
          /\ df_raw[1].rows[i].cells[6] = config[1].rpm_max
    /\ df_raw[1].rows[1].cells[2] = df_raw[1].rows[2].cells[2]
    /\ df_raw[1].rows[1].cells[4] # df_raw[1].rows[2].cells[4]
    /\ df[1].rows = <<>>

(***************************************************************************)
(* C8. With drop_multi_style_shifts disabled, Stage 6 removes no row: the  *)
(* rows that enter the derived-metric stage are the rows that passed the   *)
(* RPM filter.                                                             *)
(***************************************************************************)
C8_MultiStyleKeptWhenDisabled ==
    [][\A c \in Calls :
        (/\ pc[c] = "rpm_filtered"
         /\ pc'[c] # pc[c]
         /\ ~config[c].drop_multi_style_shifts) =>
            /\ pc'[c] = "grouped"
            /\ df'[c] = df[c]]_vars

\* with the flag disabled, two rows of one shift with two styles have passed
\* Stage 6
C8_Witness ==
    /\ pc[1] = "grouped"
    /\ ~config[1].drop_multi_style_shifts
    /\ Len(df[1].rows) = 2
    /\ Cardinality(StylesInGroup(df[1], df[1].rows[1], config[1])) = 2

(***************************************************************************)
(* C9. The rows of the working table and of the returned table are a       *)
(* subsequence of the rows given: every label is the label of a row of the *)
(* input, none occurs twice, and the labels keep the input's order.        *)
(***************************************************************************)
C9_RowsAreSubsequence ==
    \A c \in Calls :
        LET CheckTable(t) ==
                /\ Range(Labels(t)) \subseteq Range(Labels(df_raw[c]))
                /\ \A i, j \in 1..Len(t.rows) :
                      i < j => t.rows[i].idx < t.rows[j].idx
        IN  /\ pc[c] \notin {"idle", "start"} => CheckTable(df[c])
            /\ pc[c] = "returned" => CheckTable(result[c])

\* a returned table holds two of the rows given, in their order
C9_Witness ==
    /\ pc[1] = "returned"
    /\ Labels(result[1]) = <<0, 1>>

(***************************************************************************)
(* C10. Two calls on equal tables under equal configurations end alike:    *)
(* both return the same table, or both fail with the same error and the    *)
(* same list of missing columns.                                           *)
(***************************************************************************)
C10_Deterministic ==
    (/\ df_raw[1] = df_raw[2]
     /\ config[1] = config[2]
     /\ Finished(1)
     /\ Finished(2)) =>
        /\ pc[1] = pc[2]
        /\ result[1] = result[2]
        /\ error[1] = error[2]

\* two calls on one table have both returned a row
C10_Witness ==
    /\ pc[1] = "returned" /\ pc[2] = "returned"
    /\ df_raw[1] = df_raw[2]
    /\ Len(result[1].rows) = 1

(***************************************************************************)
(* C11. Every constructed configuration maps the raw shift header to       *)
(* Shift_period and the raw run-time header to Run_time, whatever          *)
(* rename_map argument the constructor was given, none included, and keeps *)
(* doing so for as long as the configuration lives.                        *)
(***************************************************************************)
C11_BuiltinEntriesAlways ==
    \A c \in Calls :
        pc[c] \notin {"idle", "new"} =>
            /\ {"Shift\nperiod", "Run\ntime"} \subseteq DOMAIN config[c].rename_map
            /\ config[c].rename_map["Shift\nperiod"] = "Shift_period"
            /\ config[c].rename_map["Run\ntime"] = "Run_time"

\* a configuration has been constructed with a caller's map that has an
\* entry of its own and an entry under a built-in key
C11_Witness ==
    /\ pc[1] = "start"
    /\ "rename_map" \in DOMAIN kwargs[1]
    /\ DOMAIN kwargs[1].rename_map = {"Speed", "Shift\nperiod"}

\* the entries of the caller's rename_map argument that are not under a
\* built-in key
CallerEntries(c) ==
    IF "rename_map" \in DOMAIN kwargs[c]
    THEN DOMAIN kwargs[c].rename_map \ {"Shift\nperiod", "Run\ntime"}
    ELSE {}

(***************************************************************************)
(* C12. An entry the caller passes in rename_map is in the rename map of   *)
(* the constructed configuration, and Stage 1 renames a column whose raw   *)
(* header is the entry's key to the entry's value.                         *)
(***************************************************************************)
C12_CallerEntriesKept ==
    \A c \in Calls :
        \A k \in CallerEntries(c) :
            /\ pc[c] \notin {"idle", "new"} =>
                  /\ k \in DOMAIN config[c].rename_map
                  /\ config[c].rename_map[k] = kwargs[c].rename_map[k]
            /\ pc[c] \notin {"idle", "new", "start"} =>
                  \A p \in 1..Len(df_raw[c].columns) :
                      df_raw[c].columns[p] = k =>
                          df[c].columns[p] = kwargs[c].rename_map[k]

\* the table given to call c carries the shift and the run time under their
\* raw headers only and the other four required columns under their names
RawExportHeaders(c) ==
    LET headers == Range(df_raw[c].columns)
    IN  /\ {"Shift\nperiod", "Run\ntime", "Date", "Machine-number",
            "Style-description", "RPM"} \subseteq headers
        /\ headers \cap {"Shift_period", "Run_time"} = {}

(***************************************************************************)
(* C13. Under a configuration constructed without a rename map, a table    *)
(* that carries the shift and the run time under their raw headers and the *)
(* other four required columns under their names passes validation (the    *)
(* call never fails), and the table returned has the headers Shift_period  *)
(* and Run_time and neither raw header.                                    *)
(***************************************************************************)
C13_RawHeadersAccepted ==
    \A c \in Calls :
        (pc[c] # "idle" /\ "rename_map" \notin DOMAIN kwargs[c]
            /\ RawExportHeaders(c)) =>
            /\ pc[c] # "raised"
            /\ pc[c] = "returned" =>
                  /\ {"Shift_period", "Run_time"}
                        \subseteq Range(result[c].columns)
                  /\ Range(result[c].columns)
                        \cap {"Shift\nperiod", "Run\ntime"} = {}

\* a table with the two raw headers and one row has been cleaned and the
\* row returned
C13_Witness ==
    /\ pc[1] = "returned"
    /\ RawExportHeaders(1)
    /\ Len(result[1].rows) = 1

\* the tables of call c that hold the derived columns: the working table
\* once the metrics are assigned, and the table returned
TablesWithMetrics(c) ==
    (IF pc[c] = "derived" THEN {df[c]} ELSE {})
    \cup (IF pc[c] = "returned" THEN {result[c]} ELSE {})

(***************************************************************************)
(* C14. In every row of the working table after Stage 7 and of the table   *)
(* returned, for spindles_per_side > 0 and shift_hours > 0:                *)
(*   Run_time_per_spindle_seconds * spindles_per_side = Run_time_seconds,  *)
(*   Run_time_per_spindle_hours * 3600 = Run_time_per_spindle_seconds,     *)
(*   Machine_Efficiency * (shift_hours * 3600 * spindles_per_side)         *)
(*       = Run_time_seconds * 100.                                         *)
(***************************************************************************)
C14_DerivedMetrics ==
    \A c \in Calls : \A t \in TablesWithMetrics(c) :
        \A i \in 1..Len(t.rows) :
            LET rts == Cell(t, t.rows[i], "Run_time_seconds")
                sps == Cell(t, t.rows[i], "Run_time_per_spindle_seconds")
                sph == Cell(t, t.rows[i], "Run_time_per_spindle_hours")
                me == Cell(t, t.rows[i], "Machine_Efficiency")
                n == config[c].spindles_per_side
                h == config[c].shift_hours
            IN  /\ n > 0 /\ h.n > 0
                /\ \A x \in {rts, sps, sph, me} : x.k = "num"
                /\ Mul(sps, Num(n, 1)) = rts
                /\ Mul(sph, Num(3600, 1)) = sps
                /\ me = Div(Mul(rts, Num(100, 1)),
                            Mul(Mul(h, Num(3600, 1)), Num(n, 1)))

\* a row of 07:30:15 has been returned under 2 spindles per side and a
\* shift of 7.5 hours: 50.03 % efficiency
C14_Witness ==
    /\ pc[1] = "returned"
    /\ config[1].spindles_per_side = 2
    /\ config[1].shift_hours = Num(15, 2)
    /\ Len(result[1].rows) = 2
    /\ Cell(result[1], result[1].rows[2], "Machine_Efficiency") = Num(1801, 36)
    /\ Cell(result[1], result[1].rows[2], "Run_time_per_spindle_hours")
          = Num(1801, 480)

\* the value of the two digits of chars from position p
TwoDigits(chars, p) == 10 * DigitVal(chars[p]) + DigitVal(chars[p + 1])

\* the row of the table given to call c that carries the label of row
RawRowOf(c, row) ==
    df_raw[c].rows[CHOOSE i \in 1..Len(df_raw[c].rows) :
                      df_raw[c].rows[i].idx = row.idx]

(***************************************************************************)
(* C15. In every row of the working table from Stage 3 on and of the table *)
(* returned, whose run time is a text HH:MM:SS, Run_time_seconds is        *)
(* HH*3600 + MM*60 + SS, and the run-time column still holds the text the  *)
(* caller's table holds for that row.                                      *)
(***************************************************************************)
C15_RunTimeSeconds ==
    \A c \in Calls :
        \A t \in (IF pc[c] \in {"coerced", "pruned", "rpm_filtered", "grouped",
                                "derived"} THEN {df[c]} ELSE {})
                 \cup (IF pc[c] = "returned" THEN {result[c]} ELSE {}) :
            \A i \in 1..Len(t.rows) :
                LET text == RawCell(df_raw[c], config[c], RawRowOf(c, t.rows[i]),
                                    config[c].col_runtime)
                IN  (text.k = "str" /\ text.s \in Range(ClockTexts)) =>
                        /\ Cell(t, t.rows[i], "Run_time_seconds")
                              = Num(TwoDigits(text.s, 1) * 3600
                                    + TwoDigits(text.s, 4) * 60
                                    + TwoDigits(text.s, 7), 1)
                        /\ Cell(t, t.rows[i], config[c].col_runtime) = text

\* rows of 06:00:00 and 07:30:15 have been returned with 21600 and 27015
\* seconds
C15_Witness ==
    /\ pc[1] = "returned"
    /\ Len(result[1].rows) = 2
    /\ Series(result[1], "Run_time") = <<Str(ClockTexts[1]), Str(ClockTexts[2])>>
    /\ Series(result[1], "Run_time_seconds") = <<Num(21600, 1), Num(27015, 1)>>

\* the positions of a call at which the working table has been cut down
Filtering == {"pruned", "rpm_filtered", "grouped", "derived"}

\* a step of call c that starts with no row left in the working table ends
\* with none, in the table returned too, and is not a failure
StaysEmpty(c) ==
    (pc[c] \in Filtering /\ df[c].rows = <<>>) =>
        /\ pc'[c] # "raised"
        /\ df'[c].rows = <<>>
        /\ pc'[c] = "returned" => result'[c].rows = <<>>

(***************************************************************************)
(* C16. A call on a table with all required columns and no rows never      *)
(* fails and returns a table with no rows; and once no row is left in the  *)
(* working table, the call goes on without failing and returns a table     *)
(* with no rows.                                                           *)
(***************************************************************************)
C16_EmptyInEmptyOut ==
    /\ [](\A c \in Calls :
            (pc[c] # "idle" /\ Lacking(c) = {} /\ df_raw[c].rows = <<>>) =>
                /\ pc[c] # "raised"
                /\ pc[c] = "returned" => result[c].rows = <<>>)
    /\ [][\A c \in Calls : StaysEmpty(c)]_vars

\* what does hold: the same for tables whose headers stay distinct under
\* Stage 1
C16_EmptyInEmptyOutOnDistinctHeaders ==
    /\ [](\A c \in Calls :
            (/\ pc[c] # "idle"
             /\ Lacking(c) = {}
             /\ DistinctAfterRename(c)
             /\ df_raw[c].rows = <<>>) =>
                /\ pc[c] # "raised"
                /\ pc[c] = "returned" => result[c].rows = <<>>)
    /\ [][\A c \in Calls : DistinctAfterRename(c) => StaysEmpty(c)]_vars

\* the headers of the table given to call c, as Stage 1 leaves them
RenamedHeaders(c) ==
    [p \in 1..Len(df_raw[c].columns) |-> Renamed(df_raw[c].columns[p], config[c])]

(***************************************************************************)
(* C17. Every table returned carries the renamed headers of the table      *)
(* given, in their order, followed by Run_time_seconds,                    *)
(* Run_time_per_spindle_seconds, Run_time_per_spindle_hours and            *)
(* Machine_Efficiency, also when it has no rows; every row has a cell for  *)
(* every header.                                                           *)
(***************************************************************************)
C17_AddedColumnsPresent ==
    \A c \in Calls :
        pc[c] = "returned" =>
            /\ result[c].columns
                  = RenamedHeaders(c)
                    \o <<"Run_time_seconds", "Run_time_per_spindle_seconds",
                         "Run_time_per_spindle_hours", "Machine_Efficiency">>
            /\ \A i \in 1..Len(result[c].rows) :
                  Len(result[c].rows[i].cells) = Len(result[c].columns)

\* a table with rows has been returned without rows
C17_Witness ==
    /\ pc[1] = "returned"
    /\ Len(df_raw[1].rows) = 2
    /\ result[1].rows = <<>>
    /\ Len(result[1].columns) = 10

\* everything call c holds
StateOf(c) ==
    <<kwargs[c], config[c], df_raw[c], df[c], shared[c], pc[c], result[c],
      error[c]>>

\* call c has ended as clean ends on its table under its configuration
EndsAsAlone(c) ==
    LET alone == clean(df_raw[c], config[c])
    IN  /\ pc[c] = "returned" =>
              /\ alone.raised = "none"
              /\ result[c] = alone.df
        /\ pc[c] = "raised" =>
              /\ alone.raised = error[c].type
              /\ error[c].type = "KeyError" =>
                    error[c].missing
                        = sorted(missing(rename(df_raw[c], config[c].rename_map),
                                         config[c]))

(***************************************************************************)
(* C18. Of two calls that run at the same time on tables and under         *)
(* configurations of their own, with their stages interleaved in any       *)
(* order, every step changes what one call holds and nothing of the other, *)
(* and each call ends with the table or the error it ends with alone.      *)
(***************************************************************************)
C18_ConcurrentCallsIndependent ==
    /\ [][\E c \in Calls :
            \A d \in Calls \ {c} : StateOf(d)' = StateOf(d)]_vars
    /\ [](\A c \in Calls : Finished(c) => EndsAsAlone(c))

\* both calls have ended, differently: call 1 has returned two rows of two
\* styles with the multi-style rule off, call 2 has returned none of its
\* two rows with the rule on
C18_Witness ==
    /\ pc[1] = "returned" /\ pc[2] = "returned"
    /\ ~config[1].drop_multi_style_shifts
    /\ config[2].drop_multi_style_shifts
    /\ Len(result[1].rows) = 2
    /\ Len(df_raw[2].rows) = 2
    /\ result[2].rows = <<>>
    /\ df_raw[1] # df_raw[2]

\* an indicator is given: fmt is neither None nor the empty text
IndicatorGiven(fmt) == fmt.given /\ fmt.text # <<>>

\* the lower-cased extension of each path of Paths, written out by hand
ExpectedExtension ==
    <<csv, csv, xlsx, xls, parquet, <<"j", "s", "o", "n">>, <<"b", "a", "k">>,
      <<>>, <<>>, <<>>, <<>>>>

\* the indicator in effect for a call: the one given, else the extension
ExpectedIndicator(call) ==
    IF IndicatorGiven(call.fmt) THEN call.fmt.text
    ELSE ExpectedExtension[CHOOSE i \in 1..Len(Paths) : Paths[i] = call.path]

\* the pandas function that handles a format in a read or a write
ExpectedCall(op, fmt) ==
    CASE fmt = csv -> (IF op = "read" THEN "read_csv" ELSE "to_csv")
      [] fmt = xlsx \/ fmt = xls ->
            (IF op = "read" THEN "read_excel" ELSE "to_excel")
      [] fmt = parquet -> (IF op = "read" THEN "read_parquet" ELSE "to_parquet")
      [] OTHER -> "none"

(***************************************************************************)
(* C19. A call of read_input_file or write_output_file whose indicator in  *)
(* effect (the one given, else the extension) is none of csv, xlsx, xls,   *)
(* parquet ends in a ValueError whose message holds that indicator and the *)
(* list of supported formats, without a pandas function having been called *)
(* and with every file as it was; with one of the four in effect the       *)
(* pandas function of that format is called instead.                       *)
(***************************************************************************)
C19_UnsupportedFormat ==
    [][(io.pc = "call" /\ io'.pc # "call") =>
        IF ExpectedIndicator(io) \notin {csv, xlsx, xls, parquet}
        THEN /\ io'.pc = "raised"
             /\ io'.error.type = "ValueError"
             /\ io'.error.message
                   = <<IF io.op = "read" THEN "Unsupported input format '"
                       ELSE "Unsupported output format '",
                       ExpectedIndicator(io),
                       "'. Supported: csv, xlsx/xls, parquet.">>
             /\ io'.called = "none"
             /\ files' = files
        ELSE io'.called = ExpectedCall(io.op, ExpectedIndicator(io))]_vars

\* a write to data.json with no indicator, over a file that was there, has
\* ended in the ValueError
C19_Witness ==
    /\ io.op = "write"
    /\ io.pc = "raised"
    /\ io.error.type = "ValueError"
    /\ io.fmt = None
    /\ io.path = Paths[6]
    /\ files[io.path].exists

(***************************************************************************)
(* C20. When an indicator is given, it alone decides the format, whatever  *)
(* the extension of the path; when none is given, the lower-cased          *)
(* extension of the path decides it.                                       *)
(***************************************************************************)
C20_IndicatorOverExtension ==
    [][(io.pc = "call" /\ io'.pc # "call") =>
        /\ IndicatorGiven(io.fmt) =>
              /\ io'.effective = io.fmt.text
              /\ io'.called = ExpectedCall(io.op, io.fmt.text)
        /\ ~IndicatorGiven(io.fmt) =>
              LET ext == ExpectedExtension[CHOOSE i \in 1..Len(Paths) :
                                             Paths[i] = io.path]
              IN  /\ io'.effective = ext
                  /\ io'.called = ExpectedCall(io.op, ext)]_vars

\* a write to data.parquet with the indicator csv has written delimited
\* text, and so has a write to data.CSV with no indicator
C20_Witness ==
    /\ io.op = "write"
    /\ io.pc = "returned"
    /\ \/ io.fmt = Text(csv) /\ io.path = Paths[5]
       \/ io.fmt = None /\ io.path = Paths[2]
    /\ io.called = "to_csv"
    /\ files[io.path].kind = "csv"

\* the job ended without an exception: all three steps were taken and the
\* output path holds the table clean returned
Completed ==
    /\ job.error = "none"
    /\ pc[1] = "returned"
    /\ files[job.output].exists
    /\ files[job.output].table = result[1]

C22_WriteOnlyAfterClean ==
    [][/\ pc'[1] # pc[1] =>
            IF pc[1] = "idle"
            THEN job.pc = "parsed" /\ df_raw'[1] = files[job.input].table
            ELSE job.pc = "cleaning"
       /\ files' # files =>
            /\ job.pc = "cleaned"
            /\ pc[1] = "returned"
            /\ \A path \in Range(Paths) \ {job.output} : files'[path] = files[path]
       /\ job.pc \in {"cleaning", "raised", "exited"} => files' = files]_vars

C22_Witness ==
    /\ job.pc = "exited"
    /\ job.error = "KeyError"
    /\ files[job.output].exists
    /\ files[job.output] = File("csv", FALSE, IoTable)
    /\ job.output # job.input

\* row i of the table given to call c passes Stages 4 and 5: its date, RPM
\* and run time parse and its RPM is at most rpm_max
Usable(c, i) ==
    /\ ~Malformed(c, df_raw[c].rows[i])
    /\ Leq(to_numeric(RawCell(df_raw[c], config[c], df_raw[c].rows[i],
                              config[c].col_rpm)),
           config[c].rpm_max)

\* rows i and k of the table given to call c have the same date, the same
\* shift or both none, and the same machine or both none
SameGroup(c, i, k) ==
    \A name \in {config[c].col_date, config[c].col_shift, config[c].col_machine} :
        RawCell(df_raw[c], config[c], df_raw[c].rows[i], name)
            = RawCell(df_raw[c], config[c], df_raw[c].rows[k], name)

StyleOf(c, i) ==
    RawCell(df_raw[c], config[c], df_raw[c].rows[i], config[c].col_style)

\* C23: only rows that passed Stages 4 and 5 count in Stage 6: a usable row
\* is still there after Stage 6 when the usable rows of its group carry at
\* most one style, whatever the styles of the rows dropped before
C23_DroppedRowsNotCounted ==
    \A c \in Calls :
        (pc[c] = "grouped" /\ config[c].drop_multi_style_shifts) =>
            \A i \in 1..Len(df_raw[c].rows) :
                (/\ Usable(c, i)
                 /\ \A k, l \in 1..Len(df_raw[c].rows) :
                       (/\ Usable(c, k) /\ SameGroup(c, i, k)
                        /\ Usable(c, l) /\ SameGroup(c, i, l)
                        /\ ~isna(StyleOf(c, k)) /\ ~isna(StyleOf(c, l)))
                           => StyleOf(c, k) = StyleOf(c, l))
                    => df_raw[c].rows[i].idx \in Range(Labels(df[c]))

\* a sound row is returned although a row of its group with an unparseable
\* run time carried another style
C23_Witness ==
    /\ pc[1] = "returned"
    /\ config[1].drop_multi_style_shifts
    /\ Len(df_raw[1].rows) = 2
    /\ SameGroup(1, 1, 2)
    /\ ~isna(StyleOf(1, 1)) /\ ~isna(StyleOf(1, 2))
    /\ StyleOf(1, 1) # StyleOf(1, 2)
    /\ df_raw[1].rows[2].cells[5] = Str(Garbage)
    /\ Labels(result[1]) = <<0>>

\* C24: Stage 6 runs before the efficiency filter: a row is not returned
\* when a usable row of its group carries another style, whether or not
\* that row's Machine_Efficiency is within the range
C24_GroupsBeforeEfficiency ==
    \A c \in Calls :
        (pc[c] = "returned" /\ config[c].drop_multi_style_shifts) =>
            \A i, k \in 1..Len(df_raw[c].rows) :
                (/\ Usable(c, i) /\ Usable(c, k) /\ SameGroup(c, i, k)
                 /\ ~isna(StyleOf(c, i)) /\ ~isna(StyleOf(c, k))
                 /\ StyleOf(c, i) # StyleOf(c, k))
                    => df_raw[c].rows[i].idx \notin Range(Labels(result[c]))

\* a row at 100 % is not returned because a row of its group under
\* efficiency_min carried another style
C24_Witness ==
    /\ pc[1] = "returned"
    /\ config[1].drop_multi_style_shifts
    /\ Len(df_raw[1].rows) = 2
    /\ SameGroup(1, 1, 2)
    /\ StyleOf(1, 1) = Str(<<"Style A">>)
    /\ StyleOf(1, 2) = Str(<<"Style B">>)
    /\ df_raw[1].rows[1].cells[5] = RunTimeValues[1]
    /\ df_raw[1].rows[2].cells[5] = RunTimeValues[3]
    /\ df_raw[1].rows[1].cells[6] = RpmValues[1]
    /\ df_raw[1].rows[2].cells[6] = RpmValues[1]
    /\ result[1].rows = <<>>

\* C25: a missing shift or machine is a group value of its own: with the
\* flag enabled a usable row with a missing shift or machine is there after
\* Stage 6 exactly when the usable rows with the same date and the same
\* (possibly missing) shift and machine carry at most one style; with the
\* flag disabled it is there always
C25_NullKeysFormGroups ==
    \A c \in Calls :
        pc[c] = "grouped" =>
            \A i \in 1..Len(df_raw[c].rows) :
                (/\ Usable(c, i)
                 /\ \/ isna(RawCell(df_raw[c], config[c], df_raw[c].rows[i],
                                    config[c].col_shift))
                    \/ isna(RawCell(df_raw[c], config[c], df_raw[c].rows[i],
                                    config[c].col_machine)))
                    => (df_raw[c].rows[i].idx \in Range(Labels(df[c]))
                          <=> \/ ~config[c].drop_multi_style_shifts
                              \/ Cardinality(
                                    {StyleOf(c, k) :
                                        k \in {l \in 1..Len(df_raw[c].rows) :
                                                 Usable(c, l) /\ SameGroup(c, i, l)}}
                                    \ {Null}) <= 1)

\* two usable rows without a shift, of two styles, are both removed
C25_Witness ==
    /\ pc[1] = "grouped"
    /\ config[1].drop_multi_style_shifts
    /\ Len(df_raw[1].rows) = 2
    /\ Usable(1, 1) /\ Usable(1, 2)
    /\ isna(df_raw[1].rows[1].cells[2])
    /\ isna(df_raw[1].rows[2].cells[2])
    /\ df_raw[1].rows[1].cells[3] = df_raw[1].rows[2].cells[3]
    /\ ~isna(StyleOf(1, 1)) /\ ~isna(StyleOf(1, 2))
    /\ StyleOf(1, 1) # StyleOf(1, 2)
    /\ df[1].rows = <<>>

\* C27: a missing style is no style of its own: when the usable rows of a
\* group carry one style and otherwise none, Stage 6 removes none of them
C27_NullStyleNotCounted ==
    \A c \in Calls :
        (pc[c] = "grouped" /\ config[c].drop_multi_style_shifts) =>
            \A i \in 1..Len(df_raw[c].rows) :
                (/\ Usable(c, i)
                 /\ \E st \in StyleValues :
                       /\ \E k \in 1..Len(df_raw[c].rows) :
                             /\ Usable(c, k) /\ SameGroup(c, i, k)
                             /\ StyleOf(c, k) = st
                       /\ \A k \in 1..Len(df_raw[c].rows) :
                             (Usable(c, k) /\ SameGroup(c, i, k))
                                 => StyleOf(c, k) \in {st, Null})
                    => df_raw[c].rows[i].idx \in Range(Labels(df[c]))

\* a row with a style and a row of the same group without one are both
\* there after Stage 6
C27_Witness ==
    /\ pc[1] = "grouped"
    /\ config[1].drop_multi_style_shifts
    /\ Len(df_raw[1].rows) = 2
    /\ SameGroup(1, 1, 2)
    /\ ~isna(StyleOf(1, 1))
    /\ isna(StyleOf(1, 2))
    /\ Labels(df[1]) = <<0, 1>>

\* C26 as stated: in every row returned, the date and the RPM are the
\* coerced values of the caller's row, and every other column of the
\* caller's table stands under its renamed header with the caller's value
C26_OtherColumnsUnchanged ==
    \A c \in Calls :
        pc[c] = "returned" =>
            \A i \in 1..Len(result[c].rows), p \in 1..Len(df_raw[c].columns) :
                LET h == Renamed(df_raw[c].columns[p], config[c])
                    given == RawRowOf(c, result[c].rows[i]).cells[p]
                    cell == result[c].rows[i].cells[p]
                IN  /\ result[c].columns[p] = h
                    /\ cell = IF h = config[c].col_date THEN to_datetime(given)
                              ELSE IF h = config[c].col_rpm THEN to_numeric(given)
                              ELSE given

\* C26, amended: the same for every column of the caller's table but those
\* that bear the name of a column clean assigns (Run_time_seconds,
\* Run_time_per_spindle_seconds, Run_time_per_spindle_hours,
\* Machine_Efficiency), whose cells clean overwrites
C26_OtherColumnsUnchangedButAssigned ==
    \A c \in Calls :
        pc[c] = "returned" =>
            \A i \in 1..Len(result[c].rows), p \in 1..Len(df_raw[c].columns) :
                LET h == Renamed(df_raw[c].columns[p], config[c])
                    given == RawRowOf(c, result[c].rows[i]).cells[p]
                    cell == result[c].rows[i].cells[p]
                IN  /\ result[c].columns[p] = h
                    /\ h \notin {"Run_time_seconds", "Run_time_per_spindle_seconds",
                                 "Run_time_per_spindle_hours", "Machine_Efficiency"}
                          => cell = IF h = config[c].col_date THEN to_datetime(given)
                                    ELSE IF h = config[c].col_rpm THEN to_numeric(given)
                                    ELSE given

\* a row is returned whose RPM was given as text, whose run time stood under
\* the raw export header, and which carries a column the pipeline does not
\* know
C26_Witness ==
    /\ pc[1] = "returned"
    /\ Len(result[1].rows) = 1
    /\ df_raw[1].columns[5] = "Run\ntime"
    /\ "Operator" \in Range(df_raw[1].columns)
    /\ df_raw[1].rows[1].cells[6] = RpmValues[3]
    /\ result[1].rows[1].cells[6] = Num(9999, 1)
    /\ result[1].rows[1].cells[5] = RunTimeValues[1]

\* C28: clean on the table clean returned, under the same configuration,
\* returns too, and returns that table: the same rows in the same order with
\* the same values under the same headers
C28_Idempotent ==
    (pc[1] = "returned" /\ pc[2] \in {"returned", "raised"}) =>
        /\ pc[2] = "returned"
        /\ result[2] = result[1]

\* the first call dropped a row and returned a row, and the second call has
\* returned
C28_Witness ==
    /\ pc[2] = "returned"
    /\ df_raw[2] = result[1]
    /\ Len(df_raw[1].rows) = 2
    /\ Len(result[1].rows) = 1
    /\ Len(result[2].rows) = 1

\* C29: every output record has a parent that is an input record of the
\* table; a process request for a record that is no input is answered with
\* 400 and leaves records and folders as they were; a delete request for an
\* input record leaves none of its output records
C29_OutputsHaveInputParent ==
    /\ [](\A o \in web.records :
            o.category = "output" =>
                \E r \in web.records : r.id = o.parent_id /\ r.category = "input")
    /\ [][/\ \A r \in web.records :
               (/\ web'.response # web.response \/ web'.records # web.records
                /\ web'.response.request = "process"
                /\ web'.response.id = r.id
                /\ r.category # "input")
                   => /\ web'.response.status = 400
                      /\ web'.records = web.records
                      /\ web'.uploads = web.uploads
                      /\ web'.outputs = web.outputs
          /\ \A r \in web.records :
               (r.category = "input" /\ r \notin web'.records)
                   => \A o \in web.records :
                         o.parent_id = r.id => o \notin web'.records]_vars

\* the input record 1 has been deleted together with its output record 2
\* and the output file, and the input record 3 is still there
C29_Witness ==
    /\ web.response = [request |-> "delete", id |-> 1, status |-> 200]
    /\ web.uuids = 3
    /\ {r.id : r \in web.records} = {3}
    /\ \A r \in web.records : r.category = "input"
    /\ web.outputs = {}
    /\ Cardinality(web.uploads) = 1

\* the table of the stored file the last request asked for
Stored(file_id) ==
    (CHOOSE f \in web.uploads : f.name = <<file_id, csv>>).file.table

\* the response holds the rows of the page asked for and the number of
\* pages of that size
PageAsAsked ==
    LET page == web.response.args.page
        per_page == web.response.args.per_page
        rows == Stored(web.response.id).rows
        last == IF page * per_page < Len(rows) THEN page * per_page ELSE Len(rows)
        total_pages == web.response.pagination.total_pages
    IN  /\ web.response.data = SubSeq(rows, (page - 1) * per_page + 1, last)
        /\ total_pages * per_page >= Len(rows)
        /\ (total_pages - 1) * per_page < Len(rows)
        /\ total_pages >= 0

\* C30: no response of the file-data endpoint holds more than 500 rows,
\* whatever integers page and per_page are; for page >= 1 and per_page in
\* 1..500 it holds exactly the rows at positions (page-1)*per_page to
\* page*per_page - 1 and total_pages = ceil(total_rows / per_page)
C30_AtMost500Rows ==
    web.response.status = 200 =>
        /\ Len(web.response.data) <= 500
        /\ (/\ web.response.args.page >= 1
            /\ web.response.args.per_page \in 1..500) => PageAsAsked

\* what does hold: the same for every page and every per_page >= 1 (a
\* per_page above 500 is served as 500)
C30_AtMost500RowsForPositivePerPage ==
    (web.response.status = 200 /\ web.response.args.per_page >= 1) =>
        /\ Len(web.response.data) <= 500
        /\ (/\ web.response.args.page >= 1
            /\ web.response.args.per_page \in 1..500) => PageAsAsked

\* the second page of 500 rows of a table of 501 rows holds the last row
C30_Witness ==
    /\ web.response.status = 200
    /\ web.response.args = [page |-> 2, per_page |-> 500]
    /\ Len(Stored(1).rows) = 501
    /\ Len(web.response.data) = 1
    /\ web.response.pagination.total_pages = 2

=============================================================================
